---- MODULE Spec2Model ----
(***************************************************************************)
(* Gesture recognizer of Spellcaster Academy (src/vision/camera_input.py): *)
(* the hold-to-confirm / debounce state machine of CameraInput, the        *)
(* confirmed-letter queue it feeds, and the start/stop lifecycle of the    *)
(* background detection thread.                                            *)
(*                                                                         *)
(* Time is measured in units of 0.05 s, so that hold_time = 0.5 s is 10    *)
(* units and a 0.15 s frame period is 3 units.  hold_progress is kept as   *)
(* the numerator of the fraction hold_progress / hold_time: the value      *)
(* hold_time stands for the float 1.0 and 0 for 0.0.                       *)
(***************************************************************************)
EXTENDS Integers, Sequences, FiniteSets, TLC

\* ------------------------------------------------------------------ bounds
\* smallest and largest clock advance between two processed frames
MinDt == 3
MaxDt == 4
\* the clock stops advancing at MaxTime
MaxTime == 24
\* number of detection threads start() may create in one run
MaxThreads == 2

\* ------------------------------------------------------- program constants
\* CameraInput(hold_time=0.5): 10 units of 0.05 s
hold_time == 10

STATE_WAITING == "waiting"
STATE_HOLDING == "holding"
STATE_DEBOUNCING == "debouncing"

\* Python's None for a letter; an optional time is <<>> or <<t>>
None == "None"
Letters == {"A", "C"}
Detections == Letters \cup {None}
DtSet == MinDt..MaxDt
Threads == 1..MaxThreads
\* self._thread is None
NoThread == 0

VARIABLES
    \* CameraInput fields
    state,                    \* self._state
    current_letter,           \* self._current_letter
    hold_start_time,          \* self._hold_start_time
    current_detected_letter,  \* self._current_detected_letter
    hold_progress,            \* self._hold_progress (numerator over hold_time)
    letter_queue,             \* self._letter_queue
    \* environment
    now,                      \* time.time()
    \* record of the frames processed so far, for stating properties of
    \* frame sequences: one entry per call of _update_state
    frames,
    \* thread management
    thread,                   \* self._thread: NoThread or a thread id
    running,                  \* self._running
    show_preview,             \* self.show_preview
    available,                \* self._available
    error_message,            \* self._error_message
    \* the detection threads: position in _detection_loop and its locals
    pc,                       \* "unborn", "startup", "while", "read",
                              \* "update", "preview", "dead"
    detected,                 \* detected_letter of the frame in hand
    ctime,                    \* current_time read by _update_state
    cap,                      \* the thread's cv2.VideoCapture: "none",
                              \* "open", "reopened", "released"
    \* the main thread: position and locals of the call in progress
    mpc,                      \* "idle", "join" (in stop), "drain" (in
                              \* get_pending_letters)
    letters,                  \* local list of get_pending_letters
    result,                   \* value of the last get_pending_letters return
    \* record of the queue traffic, for stating hand-off properties
    enqueued,                 \* every letter put, in put order
    returned,                 \* the returned lists, concatenated in call order
    call_queue,               \* queue contents when the current or last
                              \* get_pending_letters call began
    call_puts,                \* Len(enqueued) at that moment
    prev_puts,                \* <<Len(enqueued)>> when the call before it
                              \* began, <<>> if there was none
    calls,                    \* get_pending_letters calls begun: 0, 1, or
                              \* 2 for two and more
    \* the locks, and the main thread's reads of the published detection
    lock,                     \* holder of self._lock: NoThread, a thread id
                              \* or MainThread
    qlock,                    \* holder of the mutex inside self._letter_queue
    snap_detection,           \* <<letter, progress>> returned to draw() by
                              \* get_current_detection(), <<>> before
    snap_state,               \* <<state>> returned to draw() by get_state(),
                              \* <<>> before
    published,                \* every (letter, progress, state) the fields
                              \* held when self._lock was released
    \* WorldScene, as far as a confirmed letter concerns it
    player,                   \* self.player: alive, state, is_blocking and
                              \* the target of its last cast animation
    current_wave_index,       \* self.current_wave_index
    enemies,                  \* self.enemies in iteration order: letter,
                              \* alive, distance from the player
    undines,                  \* self.undine_manager.undines, likewise
    spells,                   \* self.spells in creation order: letter, pool
                              \* and index of the target, spell type
    spell_type_index,         \* self._spell_type_index
    no_target_timer,          \* self._no_target_timer, in units of 0.05 s
    no_target_letter,         \* self._no_target_letter
    handled,                  \* record of the _handle_camera_letter calls
    cpc,                      \* position in the spell loops of a tick:
                              \* <<"idle", 0>>, or <<"enemy", k>>,
                              \* <<"undine", k>> for spell k of
                              \* list(self.spells)
    collided,                 \* the live entities whose hitbox the spell of
                              \* the last loop step was found to touch
    shown,                    \* the notice as announced: <<c, t>> for
                              \* letter c with tick time t passed since it
                              \* was raised, <<>> once t reaches 1.5 s
    \* WorldScene.update: position and locals of the tick in progress
    camera_input,             \* self.camera_input: None or the recognizer
    wpc,                      \* "idle" (between ticks), "drain" (in
                              \* get_pending_letters), "handle" (from the
                              \* for loop up to player.update)
    tick_dt,                  \* dt of the tick in progress, 0 between ticks
    pending,                  \* pending_letters of the tick in progress
    polled,                   \* the tick in progress called
                              \* get_pending_letters
    at_drain,                 \* queue contents when it was called
    ticks,                    \* ticks begun
    \* WorldScene: pauses and the death dialog
    showing_asl_popup,        \* self._showing_asl_popup
    waiting_for_camera_ready, \* self._waiting_for_camera_ready
    camera_initialized,       \* self._camera_initialized
    death_anim,               \* the player's animation 'death':
                              \* [elapsed, finished]
    show_death_dialog,        \* self.show_death_dialog
    pause_mark                \* <<phase, q>>: "paused" during a pause,
                              \* "resumed" from its end to the next tick,
                              \* "first" during that tick, else "none"; q is
                              \* the queue as it was when the pause ended

smvars == <<state, current_letter, hold_start_time, current_detected_letter,
            hold_progress, letter_queue, enqueued>>
lifevars == <<thread, running, show_preview, available, error_message>>
loopvars == <<pc, detected, ctime, cap>>
mainvars == <<mpc, letters, result, returned, call_queue, call_puts, prev_puts,
              calls>>
lockvars == <<lock, qlock, snap_detection, snap_state, published>>
worldvars == <<player, current_wave_index, enemies, undines, spells,
               spell_type_index, no_target_timer, no_target_letter, handled,
               shown, cpc, collided>>
scenevars == <<showing_asl_popup, waiting_for_camera_ready,
               camera_initialized, death_anim, show_death_dialog,
               pause_mark>>
tickvars == <<camera_input, wpc, tick_dt, pending, polled, at_drain, ticks,
              scenevars>>
vars == <<smvars, now, frames, lifevars, loopvars, mainvars, lockvars,
          worldvars, tickvars>>

\* the id of the main thread as a lock holder
MainThread == MaxThreads + 1

Min(a, b) == IF a <= b THEN a ELSE b

\* The fields _update_state reads and writes, as a record
Machine == [state |-> state, current_letter |-> current_letter,
            hold_start_time |-> hold_start_time,
            current_detected_letter |-> current_detected_letter,
            hold_progress |-> hold_progress]

\* _update_state, branch self._state == STATE_WAITING.  put is the letter
\* handed to self._letter_queue.put, or None.
FromWaiting(m, d, t) ==
    IF d # None
    THEN [state |-> STATE_HOLDING, current_letter |-> d,
          hold_start_time |-> <<t>>, current_detected_letter |-> d,
          hold_progress |-> 0, put |-> None]
    ELSE [state |-> m.state, current_letter |-> m.current_letter,
          hold_start_time |-> m.hold_start_time,
          current_detected_letter |-> None,
          hold_progress |-> 0, put |-> None]

HoldingNone_KeepsHold(m, d, t) ==
    [state |-> m.state, current_letter |-> m.current_letter,
     hold_start_time |-> m.hold_start_time, current_detected_letter |-> None,
     hold_progress |-> m.hold_progress, put |-> None]

HoldingNone_KeepsProgress(m, d, t) ==
    [state |-> STATE_WAITING, current_letter |-> None,
     hold_start_time |-> <<>>, current_detected_letter |-> None,
     hold_progress |-> m.hold_progress, put |-> None]

\* _update_state, branch STATE_HOLDING, detected_letter is None
HoldingNone(m, d, t) ==
    [state |-> STATE_WAITING, current_letter |-> None,
     hold_start_time |-> <<>>, current_detected_letter |-> None,
     hold_progress |-> 0, put |-> None]

HoldingOther_KeepsTimer(m, d, t) ==
    [state |-> m.state, current_letter |-> d,
     hold_start_time |-> m.hold_start_time, current_detected_letter |-> d,
     hold_progress |-> 0, put |-> None]

\* _update_state, branch STATE_HOLDING, detected_letter != self._current_letter
HoldingOther(m, d, t) ==
    [state |-> m.state, current_letter |-> d,
     hold_start_time |-> <<t>>, current_detected_letter |-> d,
     hold_progress |-> 0, put |-> None]

HoldingSame_NoDebounce(m, d, t) ==
    LET hold_duration == t - m.hold_start_time[1]
    IN  [state |-> m.state, current_letter |-> m.current_letter,
         hold_start_time |-> m.hold_start_time,
         current_detected_letter |-> m.current_detected_letter,
         hold_progress |-> Min(hold_time, hold_duration),
         put |-> IF hold_duration >= hold_time THEN m.current_letter
                 ELSE None]

HoldingSame_Strict(m, d, t) ==
    LET hold_duration == t - m.hold_start_time[1]
    IN  IF hold_duration > hold_time
        THEN [state |-> STATE_DEBOUNCING, current_letter |-> m.current_letter,
              hold_start_time |-> m.hold_start_time,
              current_detected_letter |-> m.current_detected_letter,
              hold_progress |-> hold_time, put |-> m.current_letter]
        ELSE [state |-> m.state, current_letter |-> m.current_letter,
              hold_start_time |-> m.hold_start_time,
              current_detected_letter |-> m.current_detected_letter,
              hold_progress |-> Min(hold_time, hold_duration), put |-> None]

\* _update_state, branch STATE_HOLDING, same letter: check the hold duration
HoldingSame(m, d, t) ==
    LET hold_duration == t - m.hold_start_time[1]
        progress == Min(hold_time, hold_duration)
    IN  IF hold_duration >= hold_time
        THEN [state |-> STATE_DEBOUNCING, current_letter |-> m.current_letter,
              hold_start_time |-> m.hold_start_time,
              current_detected_letter |-> m.current_detected_letter,
              hold_progress |-> hold_time, put |-> m.current_letter]
        ELSE [state |-> m.state, current_letter |-> m.current_letter,
              hold_start_time |-> m.hold_start_time,
              current_detected_letter |-> m.current_detected_letter,
              hold_progress |-> progress, put |-> None]

\* _update_state, branch STATE_HOLDING
FromHolding(m, d, t) ==
    IF d = None THEN HoldingNone(m, d, t)
    ELSE IF d # m.current_letter THEN HoldingOther(m, d, t)
    ELSE HoldingSame(m, d, t)

FromDebouncing_Rearms(m, d, t) ==
    IF d = None
    THEN [state |-> STATE_WAITING, current_letter |-> None,
          hold_start_time |-> <<>>, current_detected_letter |-> d,
          hold_progress |-> 0, put |-> None]
    ELSE IF d # m.current_letter
    THEN [state |-> STATE_HOLDING, current_letter |-> d,
          hold_start_time |-> <<t>>, current_detected_letter |-> d,
          hold_progress |-> 0, put |-> None]
    ELSE [state |-> m.state, current_letter |-> m.current_letter,
          hold_start_time |-> m.hold_start_time,
          current_detected_letter |-> d,
          hold_progress |-> m.hold_progress, put |-> None]

FromDebouncing_NeverReleases(m, d, t) ==
    [state |-> m.state, current_letter |-> m.current_letter,
     hold_start_time |-> m.hold_start_time, current_detected_letter |-> d,
     hold_progress |-> m.hold_progress, put |-> None]

\* _update_state, branch STATE_DEBOUNCING
FromDebouncing(m, d, t) ==
    IF d = None
    THEN [state |-> STATE_WAITING, current_letter |-> None,
          hold_start_time |-> <<>>, current_detected_letter |-> d,
          hold_progress |-> 0, put |-> None]
    ELSE [state |-> m.state, current_letter |-> m.current_letter,
          hold_start_time |-> m.hold_start_time,
          current_detected_letter |-> d,
          hold_progress |-> m.hold_progress, put |-> None]

\* _update_state(detected_letter) with current_time = t, as a function of
\* the fields
Step(m, d, t) ==
    IF m.state = STATE_WAITING THEN FromWaiting(m, d, t)
    ELSE IF m.state = STATE_HOLDING THEN FromHolding(m, d, t)
    ELSE FromDebouncing(m, d, t)

\* _update_state(detected_letter): the whole method, under self._lock
UpdateState(d, t) ==
    LET r == Step(Machine, d, t)
    IN  /\ state' = r.state
        /\ current_letter' = r.current_letter
        /\ hold_start_time' = r.hold_start_time
        /\ current_detected_letter' = r.current_detected_letter
        /\ hold_progress' = r.hold_progress
        /\ letter_queue' = IF r.put # None THEN Append(letter_queue, r.put)
                           ELSE letter_queue
        /\ enqueued' = IF r.put # None THEN Append(enqueued, r.put)
                       ELSE enqueued

\* Player states
STATE_IDLE == "idle"
STATE_WALKING == "walking"
STATE_CASTING == "casting"
STATE_BLOCKING == "blocking"
STATE_DEAD == "dead"

\* self.cast_anim_duration = 0.4, in units of 0.05 s
cast_anim_duration == 8

\* no entity: the None of the target searches
NoTarget == 0

\* Animation.reset
AnimationReset == [elapsed |-> 0, finished |-> FALSE]

\* a scene past its pauses: the popup was closed and the recognizer fetched
InitScene ==
    /\ showing_asl_popup = FALSE
    /\ waiting_for_camera_ready = FALSE
    /\ camera_initialized = TRUE
    /\ death_anim = AnimationReset
    /\ show_death_dialog = FALSE
    /\ pause_mark = <<"none", <<>>>>

\* WorldScene.__init__ and on_enter: the recognizer fetched from the game,
\* no tick begun
InitUpdate ==
    /\ camera_input = "CameraInput"
    /\ wpc = "idle"
    /\ tick_dt = 0
    /\ pending = <<>>
    /\ polled = FALSE
    /\ at_drain = <<>>
    /\ ticks = 0
    /\ InitScene

\* CameraInput.__init__
InitCamera ==
    /\ state = STATE_WAITING
    /\ current_letter = None
    /\ hold_start_time = <<>>
    /\ current_detected_letter = None
    /\ hold_progress = 0
    /\ letter_queue = <<>>
    /\ now = 0
    /\ frames = <<>>
    /\ thread = NoThread
    /\ running = FALSE
    /\ show_preview \in BOOLEAN
    /\ available = FALSE
    /\ error_message = None
    /\ pc = [th \in Threads |-> "unborn"]
    /\ detected = [th \in Threads |-> None]
    /\ ctime = [th \in Threads |-> 0]
    /\ cap = [th \in Threads |-> "none"]
    /\ mpc = "idle"
    /\ letters = <<>>
    /\ result = <<>>
    /\ enqueued = <<>>
    /\ returned = <<>>
    /\ call_queue = <<>>
    /\ call_puts = 0
    /\ prev_puts = <<>>
    /\ calls = 0
    /\ lock = NoThread
    /\ qlock = NoThread
    /\ snap_detection = <<>>
    /\ snap_state = <<>>
    /\ published = {<<None, 0, STATE_WAITING>>}

\* CameraInput.__init__ and, for its fields above, WorldScene.__init__
Init ==
    /\ InitCamera
    /\ InitUpdate
    /\ player = [alive |-> TRUE, state |-> STATE_IDLE, is_blocking |-> FALSE,
                 cast_toward |-> <<>>, cast_anim_timer |-> 0]
    /\ current_wave_index = 0
    /\ enemies = <<>>
    /\ undines = <<>>
    /\ spells = <<>>
    /\ spell_type_index = 0
    /\ no_target_timer = 0
    /\ no_target_letter = None
    /\ shown = <<>>
    /\ handled = <<>>
    /\ cpc = <<"idle", 0>>
    /\ collided = {}

\* One iteration of the detection loop seen from the state machine: a frame
\* is read, classified as d, and _update_state(d) runs at clock now + dt.
\* The entry recorded in frames is the classification, the time, the state
\* before the call (from) and the fields and the queue after it.
ProcessFrame ==
    \E d \in Detections, dt \in DtSet :
        /\ now + dt <= MaxTime
        /\ now' = now + dt
        /\ UpdateState(d, now + dt)
        /\ frames' = Append(frames,
               [d |-> d, t |-> now + dt, from |-> state, to |-> state',
                letter |-> current_letter', start |-> hold_start_time',
                shown |-> current_detected_letter',
                progress |-> hold_progress', queue |-> letter_queue'])
        /\ UNCHANGED tickvars
        /\ UNCHANGED <<worldvars, lockvars, lifevars, loopvars, mainvars>>

NextFrames == ProcessFrame

SpecFrames == Init /\ [][NextFrames]_vars

\* time.sleep(0.5) of the reconnect, in the unit of hold_time
reopen_backoff == 10

\* the mark of an iteration whose cap.read() returned no frame
NoFrame == "NoFrame"

\* One iteration of the detection loop whose read fails: the device is
\* released, the loop sleeps reopen_backoff and reopens it; _update_state is
\* not called.  The iteration is recorded in frames with d = NoFrame.
CameraOutage ==
    /\ now + reopen_backoff <= MaxTime
    /\ now' = now + reopen_backoff
    /\ frames' = Append(frames,
           [d |-> NoFrame, t |-> now + reopen_backoff, from |-> state,
            to |-> state, letter |-> current_letter,
            start |-> hold_start_time, shown |-> current_detected_letter,
            progress |-> hold_progress, queue |-> letter_queue])
    /\ UNCHANGED tickvars
    /\ UNCHANGED <<worldvars, lockvars, smvars, lifevars, loopvars, mainvars>>

\* the detection loop with a camera that can drop out
NextOutage ==
    \/ ProcessFrame
    \/ CameraOutage

SpecOutage == Init /\ [][NextOutage]_vars

\* ---------------------------------------------------------------------
\* The detection thread and the main thread

Alive(th) == pc[th] \notin {"unborn", "dead"}

\* threading.Thread.is_alive() of self._thread
ThreadIsAlive == thread # NoThread /\ Alive(thread)

\* the id the next created thread gets
NextThread == Cardinality({th \in Threads : pc[th] # "unborn"}) + 1

\* CameraInput.start()
Start ==
    /\ mpc = "idle"
    /\ IF ThreadIsAlive
       THEN UNCHANGED <<thread, running, pc>>
       ELSE /\ NextThread \in Threads
            /\ running' = TRUE
            /\ thread' = NextThread
            /\ pc' = [pc EXCEPT ![NextThread] = "startup"]
    /\ UNCHANGED tickvars
    /\ UNCHANGED <<worldvars, lockvars, smvars, now, frames, show_preview,
                   available,
                   error_message, detected, ctime, cap, mainvars>>

\* CameraInput.stop(), up to the join
StopBegin ==
    /\ mpc = "idle"
    /\ running' = FALSE
    /\ mpc' = IF thread # NoThread THEN "join" ELSE "idle"
    /\ UNCHANGED tickvars
    /\ UNCHANGED <<worldvars, lockvars, smvars, now, frames, thread,
                   show_preview,
                   available,
                   error_message, loopvars, letters, result, returned,
                   call_queue, call_puts, prev_puts, calls>>

\* CameraInput.stop(): self._thread.join(timeout=2.0) returns, because the
\* thread has ended or because the timeout expired, and the handle is dropped
StopJoin ==
    /\ mpc = "join"
    /\ \E timed_out \in BOOLEAN :
          IF timed_out THEN Alive(thread) ELSE ~Alive(thread)
    /\ thread' = NoThread
    /\ mpc' = "idle"
    /\ UNCHANGED tickvars
    /\ UNCHANGED <<worldvars, lockvars, smvars, now, frames, running,
                   show_preview,
                   available,
                   error_message, loopvars, letters, result, returned,
                   call_queue, call_puts, prev_puts, calls>>

QueueGet_Lifo(q) ==
    [item |-> q[Len(q)], rest |-> SubSeq(q, 1, Len(q) - 1)]

\* queue.Queue.get_nowait on a non-empty queue: the item taken and the rest
QueueGet(q) == [item |-> Head(q), rest |-> Tail(q)]

\* get_pending_letters(): letters = []
DrainBegin ==
    /\ mpc = "idle"
    /\ mpc' = "drain"
    /\ letters' = <<>>
    /\ call_queue' = letter_queue
    /\ call_puts' = Len(enqueued)
    /\ prev_puts' = IF calls = 0 THEN <<>> ELSE <<call_puts>>
    /\ calls' = Min(calls + 1, 2)
    /\ UNCHANGED tickvars
    /\ UNCHANGED <<worldvars, lockvars, smvars, now, frames, lifevars,
                   loopvars, result,
                   returned>>

\* get_pending_letters(): one get_nowait that finds a letter
DrainGet ==
    /\ mpc = "drain"
    /\ letter_queue # <<>>
    /\ letter_queue' = QueueGet(letter_queue).rest
    /\ letters' = Append(letters, QueueGet(letter_queue).item)
    /\ UNCHANGED tickvars
    /\ UNCHANGED <<worldvars, lockvars, state, current_letter, hold_start_time,
                   current_detected_letter, hold_progress, enqueued, now,
                   frames, lifevars, loopvars, mpc, result, returned,
                   call_queue, call_puts, prev_puts, calls>>

DrainEnd_AfterOne ==
    /\ mpc = "drain"
    /\ letter_queue = <<>> \/ letters # <<>>
    /\ result' = letters
    /\ returned' = returned \o letters
    /\ letters' = <<>>
    /\ mpc' = "idle"
    /\ UNCHANGED tickvars
    /\ UNCHANGED <<worldvars, lockvars, smvars, now, frames, lifevars,
                   loopvars,
                   call_queue,
                   call_puts, prev_puts, calls>>

\* get_pending_letters(): get_nowait raises queue.Empty, the list is returned
DrainEnd ==
    /\ mpc = "drain"
    /\ letter_queue = <<>>
    /\ result' = letters
    /\ returned' = returned \o letters
    /\ letters' = <<>>
    /\ mpc' = "idle"
    /\ UNCHANGED tickvars
    /\ UNCHANGED <<worldvars, lockvars, smvars, now, frames, lifevars,
                   loopvars,
                   call_queue,
                   call_puts, prev_puts, calls>>

\* _detection_loop up to the loop: dependencies, model, detector, camera
StartupOutcomes == {"ok", "no_model", "no_detector", "no_camera", "raise"}

StartupError(o) ==
    IF o = "no_model" THEN "Model file not found (model.p)"
    ELSE IF o = "no_detector" THEN "Hand landmarker model not found"
    ELSE IF o = "no_camera" THEN "Could not open camera"
    ELSE "Camera error"

Startup_KeepsAvailable(th) ==
    /\ pc[th] = "startup"
    /\ \E o \in StartupOutcomes :
          IF o = "ok"
          THEN /\ available' = TRUE
               /\ cap' = [cap EXCEPT ![th] = "open"]
               /\ pc' = [pc EXCEPT ![th] = "while"]
               /\ UNCHANGED error_message
          ELSE /\ available' = available
               /\ error_message' = StartupError(o)
               /\ cap' = cap
               /\ pc' = [pc EXCEPT ![th] = "dead"]
    /\ UNCHANGED tickvars
    /\ UNCHANGED <<worldvars, lockvars, smvars, now, frames, thread, running,
                   show_preview,
                   detected, ctime, mainvars>>

Startup_ClearsError(th) ==
    /\ pc[th] = "startup"
    /\ \E o \in StartupOutcomes :
          IF o = "ok"
          THEN /\ available' = TRUE
               /\ cap' = [cap EXCEPT ![th] = "open"]
               /\ pc' = [pc EXCEPT ![th] = "while"]
               /\ error_message' = None
          ELSE /\ available' = FALSE
               /\ error_message' = StartupError(o)
               /\ cap' = cap
               /\ pc' = [pc EXCEPT ![th] = "dead"]
    /\ UNCHANGED tickvars
    /\ UNCHANGED <<worldvars, lockvars, smvars, now, frames, thread, running,
                   show_preview,
                   detected, ctime, mainvars>>

Startup(th) ==
    /\ pc[th] = "startup"
    /\ \E o \in StartupOutcomes :
          IF o = "ok"
          THEN /\ available' = TRUE
               /\ cap' = [cap EXCEPT ![th] = "open"]
               /\ pc' = [pc EXCEPT ![th] = "while"]
               /\ UNCHANGED error_message
          ELSE /\ available' = FALSE
               /\ error_message' = StartupError(o)
               /\ cap' = cap
               /\ pc' = [pc EXCEPT ![th] = "dead"]
    /\ UNCHANGED tickvars
    /\ UNCHANGED <<worldvars, lockvars, smvars, now, frames, thread, running,
                   show_preview,
                   detected, ctime, mainvars>>

While_IgnoresFlag(th) ==
    /\ pc[th] = "while"
    /\ pc' = [pc EXCEPT ![th] = "read"]
    /\ cap' = cap
    /\ UNCHANGED tickvars
    /\ UNCHANGED <<worldvars, lockvars, smvars, now, frames, lifevars,
                   detected, ctime,
                   mainvars>>

\* while self._running: ... and the cleanup after the loop
While(th) ==
    /\ pc[th] = "while"
    /\ IF running
       THEN /\ pc' = [pc EXCEPT ![th] = "read"]
            /\ cap' = cap
       ELSE /\ pc' = [pc EXCEPT ![th] = "dead"]
            /\ cap' = [cap EXCEPT ![th] = "released"]
    /\ UNCHANGED tickvars
    /\ UNCHANGED <<worldvars, lockvars, smvars, now, frames, lifevars,
                   detected, ctime,
                   mainvars>>

ReadFailed_EndsLoop(th) ==
    /\ pc' = [pc EXCEPT ![th] = "dead"]
    /\ cap' = [cap EXCEPT ![th] = "released"]
    /\ UNCHANGED <<detected, ctime, available, error_message>>

\* if not ret: cap.release(); time.sleep(0.5); cap = cv2.VideoCapture(0);
\* continue
ReadFailed(th) ==
    /\ pc' = [pc EXCEPT ![th] = "while"]
    /\ cap' = [cap EXCEPT ![th] = "reopened"]
    /\ UNCHANGED <<detected, ctime, available, error_message>>

\* a frame is read and classified as d; _update_state takes the clock
ReadFrame(th) ==
    \E d \in Detections :
        /\ detected' = [detected EXCEPT ![th] = d]
        /\ ctime' = [ctime EXCEPT ![th] = now]
        /\ pc' = [pc EXCEPT ![th] = "update"]
        /\ UNCHANGED <<cap, available, error_message>>

\* an exception in the loop body: the except clause of _detection_loop
ReadRaises(th) ==
    /\ error_message' = "Camera error"
    /\ available' = FALSE
    /\ pc' = [pc EXCEPT ![th] = "dead"]
    /\ UNCHANGED <<detected, ctime, cap>>

\* ret, frame = cap.read(); on failure release, sleep and reopen; on success
\* classify the frame (_detect_letter_with_landmarks) and enter
\* _update_state, which reads time.time() before taking the lock.  An
\* exception in the classification ends the thread through the except clause.
Read(th) ==
    /\ pc[th] = "read"
    /\ \/ ReadFailed(th)
       \/ ReadFrame(th)
       \/ ReadRaises(th)
    /\ UNCHANGED tickvars
    /\ UNCHANGED <<worldvars, lockvars, smvars, now, frames, thread, running,
                   show_preview,
                   mainvars>>

\* _update_state: the part under self._lock
Update(th) ==
    /\ pc[th] = "update"
    /\ UpdateState(detected[th], ctime[th])
    /\ pc' = [pc EXCEPT ![th] = "preview"]
    /\ detected' = [detected EXCEPT ![th] = None]
    /\ ctime' = [ctime EXCEPT ![th] = 0]
    /\ UNCHANGED tickvars
    /\ UNCHANGED <<worldvars, lockvars, now, frames, lifevars, cap, mainvars>>

\* the preview window: 'q' clears self._running and breaks to the cleanup;
\* otherwise, or without preview, sleep and loop
Preview(th) ==
    /\ pc[th] = "preview"
    /\ \E q \in BOOLEAN :
          IF show_preview /\ q
          THEN /\ running' = FALSE
               /\ pc' = [pc EXCEPT ![th] = "dead"]
               /\ cap' = [cap EXCEPT ![th] = "released"]
          ELSE /\ pc' = [pc EXCEPT ![th] = "while"]
               /\ UNCHANGED <<running, cap>>
    /\ UNCHANGED tickvars
    /\ UNCHANGED <<worldvars, lockvars, smvars, now, frames, thread,
                   show_preview,
                   available,
                   error_message, detected, ctime, mainvars>>

\* time passes
Tick ==
    /\ now + hold_time <= MaxTime
    /\ now' = now + hold_time
    /\ UNCHANGED tickvars
    /\ UNCHANGED <<worldvars, lockvars, smvars, frames, lifevars, loopvars,
                   mainvars>>

\* the steps of one detection thread
ThreadStep(th) ==
    \/ Startup(th)
    \/ While(th)
    \/ Read(th)
    \/ Update(th)
    \/ Preview(th)

\* steps of the detection threads
LoopStep ==
    \/ \E th \in Threads : Startup(th)
    \/ \E th \in Threads : While(th)
    \/ \E th \in Threads : Read(th)
    \/ \E th \in Threads : Update(th)
    \/ \E th \in Threads : Preview(th)

\* the recognizer driven through start() and stop()
Next ==
    \/ Start
    \/ StopBegin
    \/ StopJoin
    \/ LoopStep
    \/ Tick

Spec == Init /\ [][Next]_vars

\* the recognizer started and polled with get_pending_letters()
NextQueue ==
    \/ Start
    \/ DrainBegin
    \/ DrainGet
    \/ DrainEnd
    \/ LoopStep
    \/ Tick

SpecQueue == Init /\ [][NextQueue]_vars

\* ---------------------------------------------------------------------
\* The same threads with self._lock and the queue's mutex as steps

\* _update_state: with self._lock, entered
UpdateAcquire(th) ==
    /\ pc[th] = "update"
    /\ lock = NoThread
    /\ lock' = th
    /\ pc' = [pc EXCEPT ![th] = "locked"]
    /\ UNCHANGED tickvars
    /\ UNCHANGED <<worldvars, smvars, now, frames, lifevars, detected, ctime,
                   cap,
                   mainvars, qlock, snap_detection, snap_state, published>>

\* _update_state on the confirming branch: self._letter_queue.put takes the
\* queue's mutex while self._lock is held
PutAcquire(th) ==
    /\ pc[th] = "locked"
    /\ Step(Machine, detected[th], ctime[th]).put # None
    /\ qlock = NoThread
    /\ qlock' = th
    /\ pc' = [pc EXCEPT ![th] = "putting"]
    /\ UNCHANGED tickvars
    /\ UNCHANGED <<worldvars, smvars, now, frames, lifevars, detected, ctime,
                   cap,
                   mainvars, lock, snap_detection, snap_state, published>>

\* _update_state: the fields are updated, the put (if any) completes and the
\* with block is left
UpdateLocked(th) ==
    /\ \/ /\ pc[th] = "locked"
          /\ Step(Machine, detected[th], ctime[th]).put = None
          /\ qlock' = qlock
       \/ /\ pc[th] = "putting"
          /\ qlock' = NoThread
    /\ UpdateState(detected[th], ctime[th])
    /\ lock' = NoThread
    /\ pc' = [pc EXCEPT ![th] = "draw"]
    /\ detected' = [detected EXCEPT ![th] = None]
    /\ ctime' = [ctime EXCEPT ![th] = 0]
    /\ UNCHANGED tickvars
    /\ UNCHANGED <<worldvars, now, frames, lifevars, cap, mainvars,
                   snap_detection,
                   snap_state>>

\* UpdateLocked without a record of what it published
UpdateRelease(th) == UpdateLocked(th) /\ UNCHANGED published

\* UpdateLocked, the fields it leaves being added to the record
UpdatePublish(th) ==
    /\ UpdateLocked(th)
    /\ published' = published \cup
           {<<current_detected_letter', hold_progress', state'>>}

\* if self.show_preview: _draw_preview, up to its with self._lock
DrawAcquire(th) ==
    /\ pc[th] = "draw"
    /\ IF show_preview
       THEN /\ lock = NoThread
            /\ lock' = th
            /\ pc' = [pc EXCEPT ![th] = "copy"]
       ELSE /\ lock' = lock
            /\ pc' = [pc EXCEPT ![th] = "preview"]
    /\ UNCHANGED tickvars
    /\ UNCHANGED <<worldvars, smvars, now, frames, lifevars, detected, ctime,
                   cap,
                   mainvars, qlock, snap_detection, snap_state, published>>

DrawCopy_KeepsLock(th) ==
    /\ pc[th] = "copy"
    /\ lock' = lock
    /\ pc' = [pc EXCEPT ![th] = "preview"]
    /\ UNCHANGED tickvars
    /\ UNCHANGED <<worldvars, smvars, now, frames, lifevars, detected, ctime,
                   cap,
                   mainvars, qlock, snap_detection, snap_state, published>>

\* _draw_preview: state and progress are copied and the with block is left;
\* the drawing and cv2.imshow follow without the lock
DrawCopy(th) ==
    /\ pc[th] = "copy"
    /\ lock' = NoThread
    /\ pc' = [pc EXCEPT ![th] = "preview"]
    /\ UNCHANGED tickvars
    /\ UNCHANGED <<worldvars, smvars, now, frames, lifevars, detected, ctime,
                   cap,
                   mainvars, qlock, snap_detection, snap_state, published>>

\* WorldScene.draw reaches the camera letter display
DrawBegin ==
    /\ mpc = "idle"
    /\ mpc' = "get_detection"
    /\ UNCHANGED tickvars
    /\ UNCHANGED <<worldvars, smvars, now, frames, lifevars, loopvars,
                   letters, result,
                   returned, call_queue, call_puts, prev_puts, calls,
                   lockvars>>

\* get_current_detection(): with self._lock, entered
GetDetectionAcquire ==
    /\ mpc = "get_detection"
    /\ lock = NoThread
    /\ lock' = MainThread
    /\ mpc' = "in_detection"
    /\ UNCHANGED tickvars
    /\ UNCHANGED <<worldvars, smvars, now, frames, lifevars, loopvars,
                   letters, result,
                   returned, call_queue, call_puts, prev_puts, calls, qlock,
                   snap_detection, snap_state, published>>

\* get_current_detection(): the pair is returned and the lock released
GetDetectionReturn ==
    /\ mpc = "in_detection"
    /\ snap_detection' = <<current_detected_letter, hold_progress>>
    /\ lock' = NoThread
    /\ mpc' = "get_state"
    /\ UNCHANGED tickvars
    /\ UNCHANGED <<worldvars, smvars, now, frames, lifevars, loopvars,
                   letters, result,
                   returned, call_queue, call_puts, prev_puts, calls, qlock,
                   snap_state, published>>

\* get_state(): with self._lock, entered
GetStateAcquire ==
    /\ mpc = "get_state"
    /\ lock = NoThread
    /\ lock' = MainThread
    /\ mpc' = "in_state"
    /\ UNCHANGED tickvars
    /\ UNCHANGED <<worldvars, smvars, now, frames, lifevars, loopvars,
                   letters, result,
                   returned, call_queue, call_puts, prev_puts, calls, qlock,
                   snap_detection, snap_state, published>>

\* get_state(): the state is returned and the lock released
GetStateReturn ==
    /\ mpc = "in_state"
    /\ snap_state' = <<state>>
    /\ lock' = NoThread
    /\ mpc' = "display"
    /\ UNCHANGED tickvars
    /\ UNCHANGED <<worldvars, smvars, now, frames, lifevars, loopvars,
                   letters, result,
                   returned, call_queue, call_puts, prev_puts, calls, qlock,
                   snap_detection, published>>

\* camera_letter_display.draw(...) shows the three values; draw() goes on
\* and its locals are gone
DrawEnd ==
    /\ mpc = "display"
    /\ mpc' = "idle"
    /\ snap_detection' = <<>>
    /\ snap_state' = <<>>
    /\ UNCHANGED tickvars
    /\ UNCHANGED <<worldvars, smvars, now, frames, lifevars, loopvars,
                   letters, result,
                   returned, call_queue, call_puts, prev_puts, calls, lock,
                   qlock, published>>

\* get_pending_letters() with the queue's mutex, without the record of the
\* queue traffic: letters = []
PollBegin ==
    /\ mpc = "idle"
    /\ mpc' = "drain"
    /\ letters' = <<>>
    /\ UNCHANGED tickvars
    /\ UNCHANGED <<worldvars, smvars, now, frames, lifevars, loopvars, result,
                   returned,
                   call_queue, call_puts, prev_puts, calls, lockvars>>

\* get_nowait takes the queue's mutex for the call and finds a letter
PollGet ==
    /\ mpc = "drain"
    /\ qlock = NoThread
    /\ letter_queue # <<>>
    /\ letter_queue' = QueueGet(letter_queue).rest
    /\ letters' = Append(letters, QueueGet(letter_queue).item)
    /\ UNCHANGED tickvars
    /\ UNCHANGED <<worldvars, state, current_letter, hold_start_time,
                   current_detected_letter, hold_progress, enqueued, now,
                   frames, lifevars, loopvars, mpc, result, returned,
                   call_queue, call_puts, prev_puts, calls, lockvars>>

\* get_nowait takes the queue's mutex for the call and raises queue.Empty
PollEnd ==
    /\ mpc = "drain"
    /\ qlock = NoThread
    /\ letter_queue = <<>>
    /\ result' = letters
    /\ letters' = <<>>
    /\ mpc' = "idle"
    /\ UNCHANGED tickvars
    /\ UNCHANGED <<worldvars, smvars, now, frames, lifevars, loopvars,
                   returned,
                   call_queue, call_puts, prev_puts, calls, lockvars>>

\* the steps a detection thread takes while it holds self._lock
LockedThreadStep(th) ==
    \/ PutAcquire(th)
    \/ UpdateRelease(th)
    \/ DrawCopy(th)

\* the recognizer started, drawn and polled, with the locks as steps
NextLock ==
    \/ Start
    \/ Tick
    \/ \E th \in Threads : Startup(th)
    \/ \E th \in Threads : While(th)
    \/ \E th \in Threads : Read(th)
    \/ \E th \in Threads : UpdateAcquire(th)
    \/ \E th \in Threads : PutAcquire(th)
    \/ \E th \in Threads : UpdateRelease(th)
    \/ \E th \in Threads : DrawAcquire(th)
    \/ \E th \in Threads : DrawCopy(th)
    \/ \E th \in Threads : Preview(th)
    \/ DrawBegin
    \/ GetDetectionAcquire
    \/ GetDetectionReturn
    \/ GetStateAcquire
    \/ GetStateReturn
    \/ DrawEnd
    \/ PollBegin
    \/ PollGet
    \/ PollEnd

SpecLock == Init /\ [][NextLock]_vars

\* the recognizer started and drawn, with a record of what it published
NextSnapshot ==
    \/ Start
    \/ Tick
    \/ \E th \in Threads : Startup(th)
    \/ \E th \in Threads : While(th)
    \/ \E th \in Threads : Read(th)
    \/ \E th \in Threads : UpdateAcquire(th)
    \/ \E th \in Threads : PutAcquire(th)
    \/ \E th \in Threads : UpdatePublish(th)
    \/ \E th \in Threads : DrawAcquire(th)
    \/ \E th \in Threads : DrawCopy(th)
    \/ \E th \in Threads : Preview(th)
    \/ DrawBegin
    \/ GetDetectionAcquire
    \/ GetDetectionReturn
    \/ GetStateAcquire
    \/ GetStateReturn
    \/ DrawEnd

SpecSnapshot == Init /\ [][NextSnapshot]_vars

\* ---------------------------------------------------------------------
\* The dispatcher: WorldScene._handle_camera_letter

\* at most so many entities in a pool, so many waves, so many letters handled
MaxEnemies == 1
MaxUndines == 1
MaxWave == 1
MaxHandled == 1

\* _no_target_timer = 1.5, in units of 0.05 s
NO_TARGET_TIME == 30

\* len(SPELL_TYPES)
NumSpellTypes == 7

\* the letters handed to the handler, the letters entities carry and the
\* distances entities have from the player
HandledLetters == {"A", "B", "b", "C"}
EntityLetters == {"A", "B"}
Distances == {30, 50}

Entities == [letter : EntityLetters, alive : BOOLEAN, dist : Distances]

\* pools of exactly n entities, in iteration order
Pools(n) == [1..n -> Entities]

\* str.upper() on the letters above
Upper(c) ==
    IF c = "a" THEN "A" ELSE IF c = "b" THEN "B" ELSE IF c = "c" THEN "C"
    ELSE c

Matches_IgnoresAlive(e, c) == e.letter = Upper(c)

\* the filter of find_enemies_by_letter and _find_closest_undine_by_letter
Matches(e, c) == e.alive /\ e.letter = Upper(c)

\* the loop of find_closest_enemy_by_letter from position i on; best is the
\* closest match so far, NoTarget while closest_dist is still infinite
RECURSIVE Closest(_, _, _, _)
Closest(pool, c, i, best) ==
    IF i > Len(pool) THEN best
    ELSE Closest(pool, c, i + 1,
                 IF /\ Matches(pool[i], c)
                    /\ (best = NoTarget \/ pool[i].dist < pool[best].dist)
                 THEN i ELSE best)

find_closest_enemy_by_letter_First(c) ==
    IF \E i \in 1..Len(enemies) : Matches(enemies[i], c)
    THEN CHOOSE i \in 1..Len(enemies) :
             /\ Matches(enemies[i], c)
             /\ \A j \in 1..(i - 1) : ~Matches(enemies[j], c)
    ELSE NoTarget

find_closest_enemy_by_letter(c) == Closest(enemies, c, 1, NoTarget)

find_closest_undine_by_letter(c) == Closest(undines, c, 1, NoTarget)

BlockUnlocked_Always(w) == TRUE

\* if self.current_wave_index >= 1
BlockUnlocked(w) == w >= 1

UseUndine_OnTie(dist_undine, dist_enemy) == dist_undine <= dist_enemy

\* if dist_undine < dist_enemy: target = None, else: target_undine = None
UseUndine(dist_undine, dist_enemy) == dist_undine < dist_enemy

\* Player.start_block
start_block(p) ==
    [p EXCEPT !.state = STATE_BLOCKING, !.is_blocking = TRUE]

\* Player.play_cast_toward
play_cast_toward(p, pool, i) ==
    [p EXCEPT !.state = STATE_CASTING, !.cast_toward = <<pool, i>>,
              !.cast_anim_timer = cast_anim_duration]

Spell_Untargeted(c, pool, i) ==
    [letter |-> None, source |-> "player", pool |-> pool, target |-> i,
     type |-> spell_type_index, alive |-> TRUE]

\* SpellProjectile.create_targeted with self._next_spell_type(): a live
\* projectile at the player's position, directed at entity i of the pool and
\* restricted to target_letter.upper()
Spell(c, pool, i) ==
    [letter |-> Upper(c), source |-> "player", pool |-> pool, target |-> i,
     type |-> spell_type_index, alive |-> TRUE]

\* the fields _handle_camera_letter can write, with what it did: searched
\* for targets, the number of start_block calls
Untouched ==
    [player |-> player, spells |-> spells,
     spell_type_index |-> spell_type_index,
     no_target_timer |-> no_target_timer,
     no_target_letter |-> no_target_letter,
     searched |-> FALSE, blocks |-> 0]

Attack(c, pool, i) ==
    [Untouched EXCEPT
        !.spells = Append(spells, Spell(c, pool, i)),
        !.spell_type_index = (spell_type_index + 1) % NumSpellTypes,
        !.player = play_cast_toward(player, pool, i),
        !.searched = TRUE]

is_alive_Always(p) == TRUE

\* Player.is_alive
is_alive(p) == p.alive

\* _handle_camera_letter(letter) as a function of the scene
Handle(c) ==
    IF ~is_alive(player) THEN Untouched
    ELSE IF Upper(c) = "B"
    THEN IF BlockUnlocked(current_wave_index)
         THEN [Untouched EXCEPT !.player = start_block(player), !.blocks = 1]
         ELSE Untouched
    ELSE LET target == find_closest_enemy_by_letter(c)
             target_undine == find_closest_undine_by_letter(c)
             both == target # NoTarget /\ target_undine # NoTarget
             use_undine ==
                 both /\ UseUndine(undines[target_undine].dist,
                                   enemies[target].dist)
         IN  IF target # NoTarget /\ ~use_undine
             THEN Attack(c, "enemy", target)
             ELSE IF target_undine # NoTarget
             THEN Attack(c, "undine", target_undine)
             ELSE [Untouched EXCEPT !.no_target_timer = NO_TARGET_TIME,
                                    !.no_target_letter = c,
                                    !.searched = TRUE]

\* a live entity of either pool carries the letter c
Tagged(c) ==
    \/ \E i \in 1..Len(enemies) :
          enemies[i].alive /\ enemies[i].letter = Upper(c)
    \/ \E i \in 1..Len(undines) :
          undines[i].alive /\ undines[i].letter = Upper(c)

\* an entity of either pool carries the letter c and is dead
TaggedDead(c) ==
    \/ \E i \in 1..Len(enemies) :
          ~enemies[i].alive /\ enemies[i].letter = Upper(c)
    \/ \E i \in 1..Len(undines) :
          ~undines[i].alive /\ undines[i].letter = Upper(c)

\* One call of _handle_camera_letter.  The entry recorded in handled is the
\* letter, what the scene was like before the call and what the call did.
HandleCall(c) ==
    LET h == Handle(c)
    IN  /\ player' = h.player
        /\ spells' = h.spells
        /\ spell_type_index' = h.spell_type_index
        /\ no_target_timer' = h.no_target_timer
        /\ no_target_letter' = h.no_target_letter
        /\ handled' = Append(handled,
               [letter |-> c, alive |-> player.alive,
                wave |-> current_wave_index,
                tagged |-> Tagged(c), tagged_dead |-> TaggedDead(c),
                searched |-> h.searched, blocks |-> h.blocks,
                player_before |-> player, player_after |-> player',
                spawned |-> Len(spells') - Len(spells),
                spell |-> IF Len(spells') > Len(spells)
                          THEN spells'[Len(spells')] ELSE None,
                notice_before |-> <<no_target_timer, no_target_letter>>,
                notice_after |-> <<no_target_timer', no_target_letter'>>])
        /\ shown' = IF h.searched /\ Len(h.spells) = Len(spells)
                    THEN <<c, 0>> ELSE shown
        /\ UNCHANGED <<current_wave_index, enemies, undines, cpc, collided>>

\* _handle_camera_letter called with any letter
HandleLetter ==
    \E c \in HandledLetters :
        /\ Len(handled) < MaxHandled
        /\ HandleCall(c)
        /\ UNCHANGED <<smvars, now, frames, lifevars, loopvars, mainvars,
                       lockvars, tickvars>>

\* a scene in the middle of a game (the recognizer built with
\* CAMERA_SHOW_PREVIEW): a player alive or dead, a wave, pools of live and
\* dead entities, nothing cast yet, no notice or a notice just raised
InitDispatch ==
    /\ InitCamera
    /\ InitUpdate
    /\ show_preview
    /\ \E a \in BOOLEAN :
          player = [alive |-> a,
                    state |-> IF a THEN STATE_IDLE ELSE STATE_DEAD,
                    is_blocking |-> FALSE, cast_toward |-> <<>>, cast_anim_timer |-> 0]
    /\ current_wave_index \in 0..MaxWave
    /\ enemies \in UNION {Pools(n) : n \in 0..MaxEnemies}
    /\ undines \in UNION {Pools(n) : n \in 0..MaxUndines}
    /\ spells = <<>>
    /\ spell_type_index = 0
    /\ \/ no_target_timer = 0 /\ no_target_letter = None /\ shown = <<>>
       \/ /\ no_target_timer = NO_TARGET_TIME /\ no_target_letter = "C"
          /\ shown = <<"C", 0>>
    /\ handled = <<>>
    /\ cpc = <<"idle", 0>>
    /\ collided = {}

NextDispatch == HandleLetter

\* at most so many ground enemies where targets are chosen among several
MaxPool == 2

\* a scene with a live idle player, up to MaxPool ground enemies and up to
\* MaxUndines undines, nothing cast yet and no notice
InitTarget ==
    /\ InitCamera
    /\ InitUpdate
    /\ show_preview
    /\ player = [alive |-> TRUE, state |-> STATE_IDLE,
                 is_blocking |-> FALSE, cast_toward |-> <<>>, cast_anim_timer |-> 0]
    /\ current_wave_index = 0
    /\ enemies \in UNION {Pools(n) : n \in 0..MaxPool}
    /\ undines \in UNION {Pools(n) : n \in 0..MaxUndines}
    /\ spells = <<>>
    /\ spell_type_index = 0
    /\ no_target_timer = 0 /\ no_target_letter = None
    /\ shown = <<>>
    /\ handled = <<>>
    /\ cpc = <<"idle", 0>>
    /\ collided = {}

SpecTarget == InitTarget /\ [][NextDispatch]_vars

--------------------------------------------------------------------------
\* The game tick: WorldScene.update

\* at most so many ticks, and so many letters put by the recognizer
MaxTicks == 4
MaxBurst == 2

\* dt of a tick, in units of 0.05 s: a slow frame and a stalled one
TickDts == {5, 20}

\* the letters the recognizer confirms during the game
ConfirmedLetters == {"A", "B", "C"}

NoticeTimer_Frozen(timer, letter, d) == [timer |-> timer, letter |-> letter]

\* _process_camera_input: the countdown of the notice
NoticeTimer(timer, letter, d) ==
    IF timer > 0
    THEN [timer |-> timer - d,
          letter |-> IF timer - d <= 0 THEN None ELSE letter]
    ELSE [timer |-> timer, letter |-> letter]

Polls_Always(ci, avail) == TRUE

\* not (self.camera_input is None or not self.camera_input.is_available())
Polls(ci, avail) == ci # None /\ avail

ReturnsEarly_Never(waiting, popup) == FALSE

\* the two tests at the top of WorldScene.update: the call returns before
\* anything of the game is updated
ReturnsEarly(waiting, popup) == waiting \/ popup

\* WorldScene.update up to the call of get_pending_letters, unless the
\* scene is paused: the notice counts down, then the recognizer is polled
\* if there is one and it is available
TickStart(d) ==
    LET n == NoticeTimer(no_target_timer, no_target_letter, d)
    IN  /\ wpc = "idle"
        /\ ~ReturnsEarly(waiting_for_camera_ready, showing_asl_popup)
        /\ tick_dt' = d
        /\ no_target_timer' = n.timer
        /\ no_target_letter' = n.letter
        /\ polled' = Polls(camera_input, available)
        /\ wpc' = IF polled' THEN "drain" ELSE "handle"
        /\ at_drain' = IF polled' THEN letter_queue ELSE <<>>
        /\ shown' = IF shown = <<>> THEN <<>>
                    ELSE IF shown[2] + d >= NO_TARGET_TIME THEN <<>>
                    ELSE <<shown[1], shown[2] + d>>
        /\ pause_mark' = IF pause_mark[1] = "resumed"
                         THEN <<"first", pause_mark[2]>> ELSE pause_mark
        /\ UNCHANGED <<camera_input, showing_asl_popup,
                       waiting_for_camera_ready, camera_initialized,
                       death_anim, show_death_dialog, pending, player,
                       current_wave_index, enemies, undines, spells,
                       spell_type_index, handled, cpc, collided, smvars,
                       now, frames, lifevars, loopvars, mainvars, lockvars>>

\* the same, counting the ticks begun up to MaxTicks
TickBegin ==
    \E d \in TickDts :
        /\ ticks < MaxTicks
        /\ ticks' = ticks + 1
        /\ TickStart(d)

\* get_pending_letters(): one get_nowait that finds a letter
TickGet ==
    /\ wpc = "drain"
    /\ letter_queue # <<>>
    /\ letter_queue' = QueueGet(letter_queue).rest
    /\ pending' = Append(pending, QueueGet(letter_queue).item)
    /\ UNCHANGED <<camera_input, scenevars, wpc, tick_dt, polled, at_drain, ticks,
                   worldvars, state, current_letter, hold_start_time,
                   current_detected_letter, hold_progress, enqueued, now,
                   frames, lifevars, loopvars, mainvars, lockvars>>

TickDrained_AfterOne ==
    /\ wpc = "drain"
    /\ letter_queue = <<>> \/ pending # <<>>
    /\ wpc' = "handle"
    /\ UNCHANGED <<camera_input, scenevars, tick_dt, pending, polled, at_drain, ticks,
                   worldvars, smvars, now, frames, lifevars, loopvars,
                   mainvars, lockvars>>

\* get_pending_letters(): get_nowait raises queue.Empty, the list is returned
TickDrained ==
    /\ wpc = "drain"
    /\ letter_queue = <<>>
    /\ wpc' = "handle"
    /\ UNCHANGED <<camera_input, scenevars, tick_dt, pending, polled, at_drain, ticks,
                   worldvars, smvars, now, frames, lifevars, loopvars,
                   mainvars, lockvars>>

\* for letter in pending_letters: self._handle_camera_letter(letter)
TickHandle ==
    /\ wpc = "handle"
    /\ Len(handled) < Len(pending)
    /\ HandleCall(pending[Len(handled) + 1])
    /\ UNCHANGED <<tickvars, smvars, now, frames, lifevars, loopvars,
                   mainvars, lockvars>>

\* Player.update(dt); fin is is_animation_finished(), moving is whether
\* handle_input found a direction key down (it looks at none when the
\* state is DEAD, and the state cannot become DEAD between the two calls)
PlayerUpdate(p, d, fin, moving) ==
    LET p1 == IF p.cast_anim_timer > 0
              THEN [p EXCEPT !.cast_anim_timer = @ - d,
                             !.state = IF p.cast_anim_timer - d <= 0
                                       THEN STATE_IDLE ELSE @]
              ELSE p
        p2 == IF p1.state = STATE_BLOCKING /\ fin
              THEN [p1 EXCEPT !.is_blocking = FALSE, !.state = STATE_IDLE]
              ELSE p1
    IN  IF p2.state \notin {STATE_DEAD, STATE_CASTING, STATE_BLOCKING}
        THEN [p2 EXCEPT !.state = IF moving /\ p.state # STATE_DEAD
                                   THEN STATE_WALKING ELSE STATE_IDLE]
        ELSE p2

\* Player.take_damage of a lethal amount: by an enemy's attack, or by an
\* undine's spell or a bolt unless the player is blocking
PlayerHit(p, hit) ==
    IF p.alive /\ (hit = "attack" \/ (hit = "spell" /\ ~p.is_blocking))
    THEN [p EXCEPT !.alive = FALSE, !.state = STATE_DEAD]
    ELSE p

\* frame_duration of the player's animation 'death' (one frame at 5 fps),
\* in units of 0.05 s
DeathFrameDuration == 4

\* Animation.update(dt) of the animation 'death': one frame, loop False
AnimationUpdate(a, d) ==
    IF a.finished THEN a
    ELSE IF a.elapsed + d >= DeathFrameDuration
         THEN [elapsed |-> (a.elapsed + d) % DeathFrameDuration,
               finished |-> TRUE]
         ELSE [elapsed |-> a.elapsed + d, finished |-> FALSE]

\* is_animation_finished() of a dead player: _update_animation made 'death'
\* the current animation if the state is DEAD, and a looping walk animation
\* if it is IDLE or WALKING
is_animation_finished(p, a) == p.state = STATE_DEAD /\ a.finished

\* _get_wave_data without a wave list: the letters ['A'] and one slime
WaveLetters == {"A"}

\* _spawn_wave: the ground enemies of the wave join self.enemies
SpawnWave(es) ==
    es \o <<[letter |-> CHOOSE c \in WaveLetters : TRUE, alive |-> TRUE,
             dist |-> 30]>>

\* WorldScene.update from player.update(dt) on, as far as the player goes:
\* the player's update with its animation, the hits of the tick (die()
\* restarts the animation 'death'), the crossing into the next region (with
\* the popup if the wave has letters not shown before, else with the
\* spawn of the wave), then the check for the death dialog
TickEnd(fin, moving, hit, cross, new_letters) ==
    LET p1 == PlayerUpdate(player, tick_dt, fin, moving)
        a1 == IF p1.state = STATE_DEAD
              THEN AnimationUpdate(death_anim, tick_dt) ELSE death_anim
        p2 == PlayerHit(p1, hit)
        a2 == IF p1.alive /\ ~p2.alive THEN AnimationReset ELSE a1
    IN  /\ wpc = "handle"
        /\ Len(handled) = Len(pending)
        /\ player' = p2
        /\ death_anim' = a2
        /\ show_death_dialog' =
               (show_death_dialog
                \/ (~p2.alive /\ is_animation_finished(p2, a2)))
        /\ IF cross
           THEN /\ current_wave_index < MaxWave
                /\ current_wave_index' = current_wave_index + 1
                /\ showing_asl_popup' = new_letters
                /\ enemies' = IF new_letters THEN enemies
                              ELSE SpawnWave(enemies)
           ELSE UNCHANGED <<current_wave_index, showing_asl_popup, enemies>>
        /\ pause_mark' = IF cross /\ new_letters THEN <<"paused", <<>>>>
                         ELSE IF pause_mark[1] = "first" THEN <<"none", <<>>>>
                         ELSE pause_mark
        /\ wpc' = "idle"
        /\ tick_dt' = 0
        /\ pending' = <<>>
        /\ polled' = FALSE
        /\ at_drain' = <<>>
        /\ handled' = <<>>
        /\ UNCHANGED <<camera_input, ticks, waiting_for_camera_ready,
                       camera_initialized, undines, spells,
                       spell_type_index, no_target_timer, no_target_letter,
                       shown, cpc, collided, smvars, now, frames, lifevars,
                       loopvars, mainvars, lockvars>>

\* the end of a tick in the last region: there is no next region to cross
\* into
TickSimulate ==
    \E fin \in BOOLEAN, moving \in BOOLEAN, hit \in {"none", "attack", "spell"} :
        TickEnd(fin, moving, hit, FALSE, FALSE)

\* self._letter_queue.put(letter) in _update_state
Put(c) ==
    /\ available
    /\ Len(enqueued) < MaxBurst
    /\ letter_queue' = Append(letter_queue, c)
    /\ enqueued' = Append(enqueued, c)
    /\ UNCHANGED <<tickvars, worldvars, state, current_letter,
                   hold_start_time, current_detected_letter,
                   hold_progress, now, frames, lifevars, loopvars,
                   mainvars, lockvars>>

\* the detection thread of the scene's recognizer confirms a letter
Confirm ==
    \E c \in ConfirmedLetters : camera_input # None /\ Put(c)

\* self._available is written by the detection thread
Toggle ==
    /\ available' = ~available
    /\ UNCHANGED <<tickvars, worldvars, smvars, now, frames, thread, running,
                   show_preview, error_message, loopvars, mainvars, lockvars>>

\* the detection thread sets self._available: True once the camera is open,
\* False when the startup of a run fails
SetAvailable == camera_input # None /\ Toggle

\* a scene in a wave with one live ground enemy tagged 'A', with or without
\* a recognizer
InitTick ==
    /\ InitCamera
    /\ show_preview
    /\ camera_input \in {None, "CameraInput"}
    /\ wpc = "idle"
    /\ tick_dt = 0
    /\ pending = <<>>
    /\ polled = FALSE
    /\ at_drain = <<>>
    /\ ticks = 0
    /\ InitScene
    /\ player = [alive |-> TRUE, state |-> STATE_IDLE,
                 is_blocking |-> FALSE, cast_toward |-> <<>>,
                 cast_anim_timer |-> 0]
    /\ current_wave_index \in 0..MaxWave
    /\ enemies = <<[letter |-> "A", alive |-> TRUE, dist |-> 30]>>
    /\ undines = <<>>
    /\ spells = <<>>
    /\ spell_type_index = 0
    /\ no_target_timer = 0 /\ no_target_letter = None
    /\ shown = <<>>
    /\ handled = <<>>
    /\ cpc = <<"idle", 0>>
    /\ collided = {}

NextTick ==
    \/ TickBegin
    \/ TickGet
    \/ TickDrained
    \/ TickHandle
    \/ TickSimulate
    \/ Confirm
    \/ SetAvailable

SpecTick == InitTick /\ [][NextTick]_vars

--------------------------------------------------------------------------
\* Projectiles against entities: the spell loops of WorldScene.update

\* at most so many projectiles in flight, and so many ticks with spell loops
MaxSpells == 2
MaxRounds == 2

ENEMY_MAX_HEALTH == 100
UNDINE_MAX_HEALTH == 30
LICH_MAX_HEALTH == 5
SPELL_DAMAGE == 150

\* Lich.__init__: wave_letters if wave_letters else ['A', 'B', 'C', 'D', 'E']
DefaultWaveLetters == {"A", "B", "C", "D", "E"}

\* the 'letters' lists of the wave configurations tried
WaveLetterPools == {{"A", "C"}, {"A", "C", "D", "E"}}

\* a slime or skeleton, an undine, a Lich as the searches and the spell
\* loops see them
Enemy(letter, alive) ==
    [kind |-> "enemy", letter |-> letter, alive |-> alive, dist |-> 30,
     health |-> IF alive THEN ENEMY_MAX_HEALTH ELSE 0]

Undine(letter, alive) ==
    [kind |-> "undine", letter |-> letter, alive |-> alive, dist |-> 50,
     health |-> IF alive THEN UNDINE_MAX_HEALTH ELSE 0]

\* Lich.__init__(x, y, letter, wave_letters)
LichInit(letter, wave_letters) ==
    [kind |-> "lich", letter |-> Upper(letter), alive |-> TRUE, dist |-> 50,
     health |-> LICH_MAX_HEALTH, is_blocking |-> FALSE,
     wave_letters |-> IF wave_letters # {} THEN wave_letters
                      ELSE DefaultWaveLetters]

\* _spawn_wave for a wave with these letters: Lich(x, y, letter=letter) with
\* letter = random.choice(letters); spawned_for records the wave's letters
SpawnLich(wl) ==
    {[LichInit(c, {}) EXCEPT !.is_blocking = b] @@ [spawned_for |-> wl] :
        c \in wl, b \in BOOLEAN}

can_hit_target_Any(s, target_letter) == TRUE

\* SpellProjectile.can_hit_target
can_hit_target(s, target_letter) ==
    s.letter = None \/ s.letter = Upper(target_letter)

\* the letters Lich.take_damage draws the new letter from
OtherLetters(e) ==
    IF e.wave_letters \ {e.letter} # {} THEN e.wave_letters \ {e.letter}
    ELSE e.wave_letters

\* take_damage(amount) of Enemy, Undine and Lich; r is the letter drawn by
\* random.choice in Lich.take_damage
take_damage(e, amount, r) ==
    IF e.kind = "lich"
    THEN IF ~e.alive \/ e.is_blocking THEN e
         ELSE IF e.health - 1 <= 0
         THEN [e EXCEPT !.health = 0, !.alive = FALSE, !.is_blocking = FALSE]
         ELSE [e EXCEPT !.health = @ - 1, !.letter = r]
    ELSE IF e.kind = "enemy" /\ ~e.alive THEN e
    ELSE IF e.health - amount <= 0
    THEN [e EXCEPT !.health = 0, !.alive = FALSE]
    ELSE [e EXCEPT !.health = @ - amount]

\* the first entity of the pool, in iteration order, that is alive, touched
\* and that the spell can hit; NoTarget if the inner loop ends without a hit
FirstHit(s, pool, touched) ==
    LET H == {j \in touched :
                 s.alive /\ pool[j].alive /\ can_hit_target(s, pool[j].letter)}
    IN  IF H = {} THEN NoTarget ELSE CHOOSE j \in H : \A i \in H : j <= i

Remaining_KeepsDestroyed(sp) == sp

\* the spells that are left in self.spells
Remaining(sp) == SelectSeq(sp, LAMBDA s : s.alive)

\* a letter is handled in a tick, before its spell loops (the first letter
\* of the tick)
CastLetter ==
    \E c \in HandledLetters :
        /\ cpc[1] = "idle"
        /\ handled = <<>>
        /\ Len(spells) < MaxSpells
        /\ HandleCall(c)
        /\ UNCHANGED <<smvars, now, frames, lifevars, loopvars, mainvars,
                       lockvars, tickvars>>

\* the loop "Update spells" of a tick: spells whose lifetime ran out or
\* that left the world are removed; then _check_spell_combat begins
SpellsUpdate ==
    \E gone \in SUBSET (1..Len(spells)) :
        /\ cpc[1] = "idle"
        /\ ticks < MaxRounds
        /\ ticks' = ticks + 1
        /\ spells' = Remaining([k \in 1..Len(spells) |->
                          [spells[k] EXCEPT !.alive = k \notin gone]])
        /\ cpc' = <<"enemy", 1>>
        /\ collided' = {}
        /\ handled' = <<>>
        /\ UNCHANGED <<player, current_wave_index, enemies, undines,
                       spell_type_index, no_target_timer, no_target_letter,
                       shown, smvars, now, frames, lifevars, loopvars,
                       mainvars, lockvars, camera_input, wpc, tick_dt,
                       pending, polled, at_drain, scenevars>>

\* one pass of the outer loop of _check_spell_combat: spell k against the
\* ground enemies whose hitbox it touches
CheckSpellCombat ==
    \E touched \in SUBSET (1..Len(enemies)), r \in DefaultWaveLetters :
        LET k == cpc[2]
            j == FirstHit(spells[k], enemies, touched)
        IN  /\ cpc[1] = "enemy"
            /\ k <= Len(spells)
            /\ collided' = {enemies[i] : i \in {i \in touched : enemies[i].alive}}
            /\ IF j = NoTarget
               THEN UNCHANGED <<enemies, spells>>
               ELSE /\ enemies[j].kind = "lich" => r \in OtherLetters(enemies[j])
                    /\ enemies' = [enemies EXCEPT
                           ![j] = take_damage(@, SPELL_DAMAGE, r)]
                    /\ spells' = [spells EXCEPT ![k].alive = FALSE]
            /\ cpc' = <<"enemy", k + 1>>
            /\ UNCHANGED <<player, current_wave_index, undines,
                           spell_type_index, no_target_timer,
                           no_target_letter, handled, shown, smvars, now,
                           frames, lifevars, loopvars, mainvars, lockvars,
                           tickvars>>

\* _check_spell_combat returns; _check_spell_undine_combat begins with the
\* spells that are left
CheckSpellCombatEnd ==
    /\ cpc[1] = "enemy"
    /\ cpc[2] > Len(spells)
    /\ spells' = Remaining(spells)
    /\ cpc' = <<"undine", 1>>
    /\ collided' = {}
    /\ UNCHANGED <<player, current_wave_index, enemies, undines,
                   spell_type_index, no_target_timer, no_target_letter,
                   handled, shown, smvars, now, frames, lifevars, loopvars,
                   mainvars, lockvars, tickvars>>

\* one pass of the outer loop of _check_spell_undine_combat
CheckSpellUndineCombat ==
    \E touched \in SUBSET (1..Len(undines)) :
        LET k == cpc[2]
            j == FirstHit(spells[k], undines, touched)
        IN  /\ cpc[1] = "undine"
            /\ k <= Len(spells)
            /\ collided' = {undines[i] : i \in {i \in touched : undines[i].alive}}
            /\ IF j = NoTarget
               THEN UNCHANGED <<undines, spells>>
               ELSE /\ undines' = [undines EXCEPT
                           ![j] = take_damage(@, SPELL_DAMAGE, None)]
                    /\ spells' = [spells EXCEPT ![k].alive = FALSE]
            /\ cpc' = <<"undine", k + 1>>
            /\ UNCHANGED <<player, current_wave_index, enemies,
                           spell_type_index, no_target_timer,
                           no_target_letter, handled, shown, smvars, now,
                           frames, lifevars, loopvars, mainvars, lockvars,
                           tickvars>>

\* _check_spell_undine_combat returns
CheckSpellUndineCombatEnd ==
    /\ cpc[1] = "undine"
    /\ cpc[2] > Len(spells)
    /\ spells' = Remaining(spells)
    /\ cpc' = <<"idle", 0>>
    /\ collided' = {}
    /\ UNCHANGED <<player, current_wave_index, enemies, undines,
                   spell_type_index, no_target_timer, no_target_letter,
                   handled, shown, smvars, now, frames, lifevars, loopvars,
                   mainvars, lockvars, tickvars>>

\* a scene in a wave: a live player, a slime or skeleton and a Lich just
\* spawned for the wave's letters (blocking or not), at most one undine
InitCombat ==
    /\ InitCamera
    /\ InitUpdate
    /\ show_preview
    /\ player = [alive |-> TRUE, state |-> STATE_IDLE,
                 is_blocking |-> FALSE, cast_toward |-> <<>>,
                 cast_anim_timer |-> 0]
    /\ current_wave_index = MaxWave
    /\ \E wl \in WaveLetterPools :
           /\ \E c \in wl, l \in SpawnLich(wl) : enemies = <<Enemy(c, TRUE), l>>
           /\ undines \in {<<>>} \cup {<<Undine(c, TRUE)>> : c \in wl}
    /\ spells = <<>>
    /\ spell_type_index = 0
    /\ no_target_timer = 0 /\ no_target_letter = None
    /\ shown = <<>>
    /\ handled = <<>>
    /\ cpc = <<"idle", 0>>
    /\ collided = {}

NextCombat ==
    \/ CastLetter
    \/ SpellsUpdate
    \/ CheckSpellCombat
    \/ CheckSpellCombatEnd
    \/ CheckSpellUndineCombat
    \/ CheckSpellUndineCombatEnd

SpecCombat == InitCombat /\ [][NextCombat]_vars

SpecDispatch == InitDispatch /\ [][NextDispatch]_vars

\* the recognizer driven through start() and stop() with the clock standing
NextLife ==
    \/ Start
    \/ StopBegin
    \/ StopJoin
    \/ LoopStep

SpecLife == Init /\ [][NextLife]_vars

\* every started thread is scheduled and every blocking call in the loop
\* (frame read, sleep, key wait) returns
SpecLifeFair == SpecLife /\ \A th \in Threads : WF_vars(ThreadStep(th))


\* ---------------------------------------------------------------------
\* Reading the record of frames

NFrames == Len(frames)

\* the queue before frame i was processed
QueueBefore(i) == IF i = 1 THEN <<>> ELSE frames[i - 1].queue

\* frame i put something into the confirmed-letter queue
Enqueued(i) == frames[i].queue # QueueBefore(i)

\* frames j..i all carry the classification c
SameRun(j, i, c) == \A k \in j..i : frames[k].d = c

\* j is the first frame of the maximal run of equal classifications that
\* contains frame i
RunStartsAt(j, i) ==
    /\ j <= i
    /\ SameRun(j, i, frames[i].d)
    /\ (j = 1 \/ frames[j - 1].d # frames[i].d)

\* C1: a letter is enqueued at most once per maximal contiguous run of frames
\* classifying that same letter: two frames that both enqueue are separated
\* by a frame with another classification (or by None).
C1_AtMostOncePerRun ==
    \A i \in 1..NFrames : \A j \in 1..NFrames :
        (i < j /\ Enqueued(i) /\ Enqueued(j)) => ~SameRun(i, j, frames[i].d)

\* C1 witness: a run that goes on for two more frames after its enqueue
C1_Witness ==
    /\ NFrames >= 3
    /\ Enqueued(NFrames - 2)
    /\ SameRun(NFrames - 2, NFrames, frames[NFrames].d)
    /\ frames[NFrames].queue = <<frames[NFrames].d>>

\* C2: starting from Waiting at frame j (time t0), while every frame up to
\* the last one classifies the same letter c, the last frame enqueues exactly
\* when it is the first one with t - t0 >= hold_time; then it enqueues c, and
\* nothing was enqueued by an earlier frame of the run.
C2_HoldThreshold ==
    \A j \in 1..NFrames :
        LET n == NFrames
            c == frames[n].d
            t0 == frames[j].t
        IN  (c # None /\ frames[j].from = STATE_WAITING /\ SameRun(j, n, c)) =>
              /\ Enqueued(n) <=>
                    /\ frames[n].t - t0 >= hold_time
                    /\ \A k \in j..(n - 1) : frames[k].t - t0 < hold_time
              /\ Enqueued(n) => frames[n].queue = Append(QueueBefore(n), c)
              /\ frames[n].t - t0 < hold_time =>
                    \A k \in j..n : ~Enqueued(k)

\* C2 witness: a hold confirmed at exactly t - t0 = hold_time
C2_Witness ==
    /\ NFrames >= 2
    /\ Enqueued(NFrames)
    /\ \E j \in 1..NFrames :
          /\ frames[j].from = STATE_WAITING
          /\ SameRun(j, NFrames, frames[NFrames].d)
          /\ frames[NFrames].t - frames[j].t = hold_time

\* C3: a letter is enqueued exactly on the step from Holding to Debouncing,
\* and it is the held letter; from Debouncing nothing is enqueued, a frame
\* with a letter keeps Debouncing and changes the displayed letter only, and
\* the state is left only for Waiting, on a frame without detection.
C3_Debounce ==
    [][ LET d == frames'[Len(frames')].d
        IN  /\ (letter_queue' # letter_queue) <=>
                  (state = STATE_HOLDING /\ state' = STATE_DEBOUNCING)
            /\ (letter_queue' # letter_queue) =>
                  /\ letter_queue' = Append(letter_queue, current_letter)
                  /\ current_letter = d
            /\ state = STATE_DEBOUNCING =>
                  /\ letter_queue' = letter_queue
                  /\ state' \in {STATE_DEBOUNCING, STATE_WAITING}
                  /\ (state' = STATE_WAITING) <=> (d = None)
                  /\ d # None =>
                        /\ current_detected_letter' = d
                        /\ UNCHANGED <<current_letter, hold_start_time,
                                       hold_progress>>
      ]_vars

\* C3 witness: still Debouncing after the fired letter, showing another one
C3_Witness ==
    /\ state = STATE_DEBOUNCING
    /\ letter_queue = <<current_letter>>
    /\ current_detected_letter \in Letters \ {current_letter}

\* C4: in Holding on letter A with elapsed < hold_time, a frame classifying
\* another letter C keeps Holding, makes C current, restarts the timer at the
\* frame's time, resets progress to 0 and enqueues nothing; afterwards C is
\* enqueued no earlier than hold_time after the switch frame.
C4_SwitchRestarts ==
    \A j \in 2..NFrames :
        LET n == NFrames
            sw == frames[j]
            held == frames[j - 1].letter
        IN  (/\ sw.from = STATE_HOLDING
             /\ sw.d \in Letters \ {held}
             /\ sw.t - frames[j - 1].start[1] < hold_time) =>
              /\ sw.to = STATE_HOLDING
              /\ sw.letter = sw.d
              /\ sw.start = <<sw.t>>
              /\ sw.progress = 0
              /\ ~Enqueued(j)
              /\ (SameRun(j, n, sw.d) /\ Enqueued(n)) =>
                    /\ frames[n].t - sw.t >= hold_time
                    /\ frames[n].queue = Append(QueueBefore(n), sw.d)
              /\ (SameRun(j, n, sw.d)) =>
                    \A k \in 1..Len(frames[n].queue) :
                        k > Len(QueueBefore(j)) => frames[n].queue[k] # held

\* C4 witness: C confirmed after a switch away from a partly held A
C4_Witness ==
    \E j \in 2..NFrames :
        /\ frames[j].from = STATE_HOLDING
        /\ frames[j - 1].progress > 0
        /\ frames[j].d \in Letters \ {frames[j - 1].letter}
        /\ SameRun(j, NFrames, frames[j].d)
        /\ Enqueued(NFrames)
        /\ letter_queue = <<frames[j].d>>

\* C5: a frame without detection during Holding returns to Waiting and
\* clears the hold; two maximal runs of the same letter, each shorter than
\* hold_time and separated by None frames only, enqueue nothing.
C5_NoneDiscardsHold ==
    LET n == NFrames
    IN  /\ n >= 1 /\ frames[n].from = STATE_HOLDING /\ frames[n].d = None =>
              /\ frames[n].to = STATE_WAITING
              /\ frames[n].letter = None
              /\ frames[n].start = <<>>
              /\ frames[n].shown = None
              /\ frames[n].progress = 0
              /\ ~Enqueued(n)
        /\ \A a \in 1..n : \A b \in a..n : \A c \in (b + 2)..n :
              (/\ frames[n].d \in Letters
               /\ RunStartsAt(a, b)
               /\ frames[b].d = frames[n].d
               /\ SameRun(b + 1, c - 1, None)
               /\ SameRun(c, n, frames[n].d)
               /\ frames[b].t - frames[a].t < hold_time
               /\ frames[n].t - frames[c].t < hold_time) =>
                  \A k \in a..n : ~Enqueued(k)

\* C5 witness: two short runs of one letter around a None frame whose total
\* duration exceeds hold_time
C5_Witness ==
    \E a \in 1..NFrames : \E b \in a..NFrames : \E c \in (b + 2)..NFrames :
        /\ frames[NFrames].d \in Letters
        /\ RunStartsAt(a, b)
        /\ frames[b].d = frames[NFrames].d
        /\ SameRun(b + 1, c - 1, None)
        /\ SameRun(c, NFrames, frames[NFrames].d)
        /\ frames[b].t - frames[a].t < hold_time
        /\ frames[NFrames].t - frames[c].t < hold_time
        /\ frames[NFrames].t - frames[a].t > hold_time
        /\ b > a /\ NFrames > c

\* End-to-end scenario 1: the classifications fed, 0.15 s (3 units) apart
Scenario1 == <<None, "A", "A", "A", "A", "A", None>>

Scenario1Fed ==
    /\ NFrames = Len(Scenario1)
    /\ \A i \in 1..NFrames : frames[i].d = Scenario1[i]
    /\ \A i \in 2..NFrames : frames[i].t - frames[i - 1].t = 3

\* C6: after scenario 1 the queue holds exactly one 'A' and the state is
\* Waiting.
C6_Scenario1 ==
    Scenario1Fed => (letter_queue = <<"A">> /\ state = STATE_WAITING)

\* C6 witness: scenario 1 has been fed
C6_Witness == Scenario1Fed /\ letter_queue = <<"A">>

\* ---------------------------------------------------------------------
\* The hand-off through the queue

IsPrefix(p, q) == Len(p) <= Len(q) /\ SubSeq(q, 1, Len(p)) = p

\* C7: whatever the interleaving of puts and get_pending_letters calls, the
\* returned lists concatenated are a prefix of the letters in put order, and
\* every letter put is in a returned list, in the list being built or still
\* queued, once and in order.
C7_FifoHandoff ==
    /\ IsPrefix(returned, enqueued)
    /\ returned \o letters \o letter_queue = enqueued

\* C7 witness: a call that began with only 'A' queued returned 'A' and the
\* 'C' that was put while it ran
C7_Witness ==
    /\ mpc = "idle"
    /\ call_queue = <<"A">>
    /\ result = <<"A", "C">>
    /\ returned = <<"A", "C">>

\* C8: a get_pending_letters call during which nothing was put returns the
\* letters queued when it began, oldest first, and leaves the queue empty; a
\* call on a non-empty queue returns a non-empty list; the second of two
\* calls with no put since the first began returns the empty list; the call
\* never waits: while it runs, one of its steps is enabled.
C8_DrainEmpties ==
    /\ (mpc = "idle" /\ calls # 0 /\ Len(enqueued) = call_puts) =>
          (result = call_queue /\ letter_queue = <<>>)
    /\ (mpc = "idle" /\ calls # 0 /\ call_queue # <<>>) =>
          (result # <<>> /\ IsPrefix(call_queue, result))
    /\ (mpc = "idle" /\ prev_puts # <<>> /\ Len(enqueued) = prev_puts[1]) =>
          result = <<>>
    /\ mpc = "drain" => ENABLED (DrainGet \/ DrainEnd)

\* C8 witness: two letters were returned by an earlier call and the latest
\* call, with no put since the one before it began, returned the empty list
C8_Witness ==
    /\ mpc = "idle"
    /\ prev_puts = <<2>>
    /\ enqueued = <<"A", "C">>
    /\ returned = <<"A", "C">>
    /\ result = <<>>

\* ---------------------------------------------------------------------
\* The lifecycle

LiveLoops == {th \in Threads : Alive(th)}

\* the threads inside the while loop of _detection_loop
Looping == {th \in Threads : pc[th] \in {"while", "read", "update", "preview"}}

\* C9: at most one detection loop is executing at any time, so the
\* detection state and the queue have a single writer.
C9_SingleLoop == Cardinality(Looping) <= 1

\* C10: start() while a detection thread is alive creates no thread and
\* changes neither the recognition state nor the queue; stop() with no
\* thread to stop returns at once and leaves the recognizer stopped.
C10_Idempotent ==
    [][ /\ (Start /\ LiveLoops # {}) =>
              UNCHANGED <<pc, thread, running, smvars>>
        /\ (StopBegin /\ thread = NoThread /\ LiveLoops = {}) =>
              /\ mpc' = "idle"
              /\ ~running'
              /\ thread' = NoThread
              /\ UNCHANGED <<pc, smvars>>
      ]_vars


\* ---------------------------------------------------------------------
\* The published detection

\* C17: after every processed frame hold_progress is within [0, 1] (0 to
\* hold_time in the numerator); in Waiting nothing is displayed, no letter
\* and no timer is held and progress is 0; in Holding the displayed letter
\* is the one current letter and progress is below 1; in Debouncing progress
\* is exactly 1.
C17_PublishedDetection ==
    /\ 0 <= hold_progress /\ hold_progress <= hold_time
    /\ state = STATE_WAITING =>
          /\ current_detected_letter = None
          /\ current_letter = None
          /\ hold_start_time = <<>>
          /\ hold_progress = 0
    /\ state = STATE_HOLDING =>
          /\ current_letter \in Letters
          /\ current_detected_letter = current_letter
          /\ hold_start_time # <<>>
          /\ hold_progress < hold_time
    /\ state = STATE_DEBOUNCING => hold_progress = hold_time

\* C17 witness: a frame left the machine Holding with partial progress
C17_Witness ==
    /\ NFrames >= 2
    /\ state = STATE_HOLDING
    /\ 0 < hold_progress /\ hold_progress < hold_time


\* ---------------------------------------------------------------------
\* Stopping, startup failures and camera outages

\* C11: once stop() has cleared the running flag and no start() follows,
\* every detection loop exits: a loop that tests the flag and finds it
\* cleared goes to its cleanup and never to another read, so at most the
\* frame in hand is processed, whether the last read succeeded or failed;
\* and with every read returning, eventually no detection thread is left.
C11_StopTerminates ==
    /\ [][\A th \in Threads :
            (~running /\ pc[th] = "while" /\ pc'[th] # "while") =>
                (pc'[th] = "dead" /\ cap'[th] = "released")]_vars
    /\ (~running ~> (running \/ LiveLoops = {}))

\* C11 witness: without a preview window, so that only stop() can clear the
\* flag, the loop has left through its cleanup while stop() waits in join
C11_Witness ==
    /\ ~show_preview
    /\ mpc = "join"
    /\ ~running
    /\ pc[thread] = "dead"
    /\ cap[thread] = "released"
    /\ LiveLoops = {}

\* the run of thread th ended in its startup, before the camera was opened
StartupFailed(th) == pc[th] = "dead" /\ cap[th] = "none"

\* C12: a failed startup is reported as state: the step that ends a thread
\* in its startup clears the available flag, sets an error message, leaves
\* the recognition state and the queue alone and does not disturb the main
\* thread, which has returned from start() already; a successful startup
\* sets the flag; an ended thread takes no further step, so that run
\* processes no frame and enqueues no letter.
C12_StartupFailure ==
    [][\A th \in Threads :
          /\ (pc[th] = "startup" /\ pc'[th] # "startup") =>
                \/ /\ pc'[th] = "while"
                   /\ available'
                   /\ error_message' = error_message
                \/ /\ StartupFailed(th)'
                   /\ ~available'
                   /\ error_message' # None
                   /\ UNCHANGED <<smvars, mainvars, thread, running>>
          /\ pc[th] = "dead" => pc'[th] = "dead"
          /\ pc[th] = "unborn" => pc'[th] \in {"unborn", "startup"}
      ]_vars

\* C12 witness: start() has returned, the thread it created ended in its
\* startup, the recognizer is unavailable with a message and nothing was
\* ever enqueued
C12_Witness ==
    /\ mpc = "idle"
    /\ thread # NoThread
    /\ StartupFailed(thread)
    /\ ~available
    /\ error_message # None
    /\ enqueued = <<>>

C14_FailedReadRetries ==
    [][\A th \in Threads :
          /\ (pc[th] = "read" /\ pc'[th] # "read") =>
                \/ /\ pc'[th] = "while"
                   /\ cap'[th] = "reopened"
                   /\ UNCHANGED <<available, error_message, smvars>>
                \/ /\ pc'[th] = "update"
                   /\ cap'[th] = cap[th]
                \/ /\ pc'[th] = "dead"
                   /\ ~available'
                   /\ error_message' = "Camera error"
          /\ (pc[th] = "while" /\ running /\ pc'[th] # "while") =>
                pc'[th] = "read"
      ]_vars

\* C14 witness: after a failed read the loop reopened the camera, went round
\* and has read a frame from it; still available, no error
C14_Witness ==
    \E th \in Threads :
        /\ cap[th] = "reopened"
        /\ pc[th] = "update"
        /\ available
        /\ error_message = None


\* ---------------------------------------------------------------------
\* Hold time across a camera outage

\* the last iteration before i that processed a frame, 0 if there is none
PrevProcessed(i) ==
    LET S == {k \in 1..(i - 1) : frames[k].d # NoFrame}
    IN  IF S = {} THEN 0 ELSE CHOOSE k \in S : \A l \in S : l <= k

\* For an iteration i that processed a frame: the time for which its
\* classification has been detected without interruption up to i.  The time
\* between two processed frames counts when they follow each other directly;
\* when failed reads lie between them no frame was processed and it does not.
RECURSIVE HeldFor(_)
HeldFor(i) ==
    LET p == PrevProcessed(i)
    IN  IF p = 0 \/ frames[p].d # frames[i].d THEN 0
        ELSE HeldFor(p) + (IF p = i - 1 THEN frames[i].t - frames[p].t ELSE 0)

\* C15: a letter is enqueued only after it has been detected continuously
\* for at least hold_time, the time of a camera outage not counting: the
\* frame that enqueues has a classification held for hold_time or more.
C15_OutageNotCounted ==
    \A i \in 1..NFrames : Enqueued(i) => HeldFor(i) >= hold_time


\* ---------------------------------------------------------------------
\* The locks

\* the positions of a detection thread inside a with self._lock block
LockedPcs == {"locked", "putting", "copy"}

LockDiscipline ==
    \* a detection thread holds self._lock exactly inside the with blocks of
    \* _update_state and _draw_preview: not while it reads a frame,
    \* classifies it, renders the preview or sleeps
    /\ \A th \in Threads : (lock = th) <=> (pc[th] \in LockedPcs)
    \* the main thread holds it exactly inside get_current_detection and
    \* get_state
    /\ (lock = MainThread) <=> (mpc \in {"in_detection", "in_state"})
    \* lock order: the queue's mutex is held across steps only by the thread
    \* that put, inside self._lock; the main thread never holds one lock
    \* while it asks for the other
    /\ qlock # NoThread =>
          (qlock \in Threads /\ pc[qlock] = "putting" /\ lock = qlock)
    \* whoever holds a lock the main thread waits for can go on by itself
    /\ (mpc \in {"get_detection", "get_state"} /\ lock # NoThread) =>
          ENABLED LockedThreadStep(lock)
    /\ (mpc = "drain" /\ qlock # NoThread) => ENABLED UpdateRelease(qlock)

\* a thread inside a with block only moves forward and out of it: from the
\* update to the put or out, from the put out, from the copy out
LockedProgress ==
    \A th \in Threads :
        (pc[th] \in LockedPcs /\ pc'[th] # pc[th]) =>
            \/ pc[th] = "locked" /\ pc'[th] \in {"putting", "draw"}
            \/ pc[th] = "putting" /\ pc'[th] = "draw"
            \/ pc[th] = "copy" /\ pc'[th] = "preview"

\* C18: the detection thread holds self._lock only while it updates the
\* state machine or copies values, never while it reads a frame, classifies,
\* renders the preview or sleeps; the locks are taken in one order only; a
\* main-thread call on the recognizer waits for nothing but a lock whose
\* holder can go on by itself and leaves the with block within two steps,
\* so the call completes whatever the detection thread is blocked on
\* elsewhere.
C18_LockDiscipline ==
    /\ []LockDiscipline
    /\ [][LockedProgress]_vars

\* C18 witness: the main thread waits in get_current_detection() while the
\* detection thread, holding self._lock, puts a confirmed letter
C18_Witness ==
    /\ mpc = "get_detection"
    /\ lock \in Threads
    /\ pc[lock] = "putting"
    /\ qlock = lock

\* ---------------------------------------------------------------------
\* The snapshot used for one draw

\* C16: the (letter, progress, state) that draw() hands to the letter display
\* are the values the fields held together when self._lock was released
\* after one processed frame (or at construction).
C16_ConsistentSnapshot ==
    mpc = "display" =>
        <<snap_detection[1], snap_detection[2], snap_state[1]>> \in published


\* ---------------------------------------------------------------------
\* The dispatcher

\* C19: handling 'B' or 'b' with the player alive never searches for a
\* target, spawns no projectile and leaves the no-target notice as it was,
\* whether or not a live entity carries 'B'.  From wave index 1 on it issues
\* exactly one start_block, which puts the player into blocking; at wave
\* index 0 it changes nothing: player, spells and notice stay as they were.
C19_ReservedBlockLetter ==
    \A i \in 1..Len(handled) :
        LET h == handled[i]
        IN  (Upper(h.letter) = "B" /\ h.alive) =>
                /\ ~h.searched
                /\ h.spawned = 0
                /\ h.notice_after = h.notice_before
                /\ h.wave >= 1 =>
                      /\ h.blocks = 1
                      /\ h.player_after =
                            [h.player_before EXCEPT
                                !.state = STATE_BLOCKING,
                                !.is_blocking = TRUE]
                /\ h.wave = 0 =>
                      /\ h.blocks = 0
                      /\ h.player_after = h.player_before

\* C19 witness: 'b' was handled at wave index 0 with the player alive and a
\* live entity tagged 'B' in a pool
C19_Witness ==
    \E i \in 1..Len(handled) :
        /\ handled[i].letter = "b"
        /\ handled[i].alive
        /\ handled[i].wave = 0
        /\ handled[i].tagged

\* C20: handling a letter other than 'B' with the player alive and no live
\* entity of either pool tagged with it spawns no projectile, starts no cast
\* animation and sets the notice to that letter with 1.5 s to run; dead
\* entities with the letter are no candidates.
C20_NoMatch ==
    \A i \in 1..Len(handled) :
        LET h == handled[i]
        IN  (Upper(h.letter) # "B" /\ h.alive /\ ~h.tagged) =>
                /\ h.spawned = 0
                /\ h.player_after = h.player_before
                /\ h.blocks = 0
                /\ h.notice_after = <<NO_TARGET_TIME, h.letter>>

\* C20 witness: 'A' was handled with the player alive while the only
\* entities tagged 'A' were dead
C20_Witness ==
    \E i \in 1..Len(handled) :
        /\ handled[i].letter = "A"
        /\ handled[i].alive
        /\ ~handled[i].tagged
        /\ handled[i].tagged_dead
        /\ handled[i].notice_after = <<NO_TARGET_TIME, "A">>


\* the distances of the live entities of a pool tagged c, and the least of
\* a set of distances
MatchDists(pool, c) ==
    {pool[i].dist : i \in {j \in 1..Len(pool) :
                               pool[j].alive /\ pool[j].letter = Upper(c)}}

Nearest(S) == CHOOSE d \in S : \A e \in S : d <= e

\* the entity a projectile was aimed at
TargetOf(s) ==
    IF s.pool = "enemy" THEN enemies[s.target] ELSE undines[s.target]

\* C21: whenever handling a letter c spawns a projectile, c is not 'B' and
\* the entity aimed at is alive, carries c (compared in upper case) and no
\* live entity of either pool carrying c is strictly nearer to the player.
C21_NearestTarget ==
    [][(Len(handled') = Len(handled) + 1 /\ Len(spells') = Len(spells) + 1)
       => LET c == handled'[Len(handled')].letter
              t == TargetOf(spells'[Len(spells')])
          IN  /\ Upper(c) # "B"
              /\ t.alive
              /\ t.letter = Upper(c)
              /\ \A d \in MatchDists(enemies, c) \cup MatchDists(undines, c) :
                     d >= t.dist]_vars

\* C21 witness: with two ground enemies, a live one at distance 50, and a
\* live undine at distance 30 with the same letter, the projectile was aimed
\* at the undine
C21_Witness ==
    /\ Len(handled) = 1
    /\ Len(spells) = 1
    /\ Len(enemies) = 2
    /\ spells[1].pool = "undine"
    /\ TargetOf(spells[1]).dist = 30
    /\ \E i \in 1..Len(enemies) :
           /\ enemies[i].alive
           /\ enemies[i].letter = spells[1].letter
           /\ enemies[i].dist = 50

\* C22: when the nearest live ground enemy and the nearest live undine
\* carrying the handled letter are at the same distance, the projectile is
\* aimed at a ground enemy at that distance.
C22_TieGoesToEnemy ==
    [][LET c == handled'[Len(handled')].letter
           E == MatchDists(enemies, c)
           U == MatchDists(undines, c)
       IN  (/\ Len(handled') = Len(handled) + 1
            /\ player.alive
            /\ Upper(c) # "B"
            /\ E # {} /\ U # {}
            /\ Nearest(E) = Nearest(U))
           => /\ Len(spells') = Len(spells) + 1
              /\ spells'[Len(spells')].pool = "enemy"
              /\ TargetOf(spells'[Len(spells')]).dist = Nearest(E)]_vars

\* C22 witness: a projectile was aimed at a ground enemy while a live
\* undine with the same letter was at the same distance
C22_Witness ==
    /\ Len(handled) = 1
    /\ Len(spells) = 1
    /\ spells[1].pool = "enemy"
    /\ \E i \in 1..Len(undines) :
           /\ undines[i].alive
           /\ undines[i].letter = spells[1].letter
           /\ undines[i].dist = TargetOf(spells[1]).dist

\* C23: handling a letter other than 'B' with the player alive and a live
\* entity carrying it spawns exactly one projectile, at the player's
\* position, aimed at an entity and restricted to the letter; the player
\* starts casting toward that entity; the notice is left as it was and no
\* block is started.
C23_AttackOutcome ==
    \A i \in 1..Len(handled) :
        LET h == handled[i]
        IN  (Upper(h.letter) # "B" /\ h.alive /\ h.tagged) =>
                /\ h.spawned = 1
                /\ h.spell.source = "player"
                /\ h.spell.letter = Upper(h.letter)
                /\ h.spell.alive
                /\ h.player_after =
                       [h.player_before EXCEPT
                           !.state = STATE_CASTING,
                           !.cast_toward = <<h.spell.pool, h.spell.target>>,
                           !.cast_anim_timer = cast_anim_duration]
                /\ h.notice_after = h.notice_before
                /\ h.blocks = 0

\* C23 witness: 'A' was handled with the player alive and a live entity
\* tagged 'A' while a notice for another letter was showing
C23_Witness ==
    \E i \in 1..Len(handled) :
        /\ handled[i].letter = "A"
        /\ handled[i].alive
        /\ handled[i].tagged
        /\ handled[i].spawned = 1
        /\ handled[i].notice_before = <<NO_TARGET_TIME, "C">>

\* C25: a letter handled while the player is not alive changes nothing: no
\* target is searched for, no projectile is spawned, no block is started,
\* the player and the no-target notice stay as they were.
C25_DeadPlayer ==
    \A i \in 1..Len(handled) :
        LET h == handled[i]
        IN  ~h.alive =>
                /\ ~h.searched
                /\ h.spawned = 0
                /\ h.blocks = 0
                /\ h.player_after = h.player_before
                /\ h.notice_after = h.notice_before

\* C25 witness: with the player dead, a letter carried by a live entity was
\* handled, and so was 'B' at a wave where the block is unlocked
C25_Witness ==
    \E i \in 1..Len(handled) :
        /\ ~handled[i].alive
        /\ \/ handled[i].tagged /\ Upper(handled[i].letter) # "B"
           \/ handled[i].letter = "B" /\ handled[i].wave >= 1


\* the letters of the calls recorded in handled
HandledLetterSeq == [i \in 1..Len(handled) |-> handled[i].letter]

\* C26: when a tick that polled the recognizer goes on to the player's
\* update, the handler has been called once per drained letter, in the
\* order of the drain, and the drained letters start with all the letters
\* that were queued when the drain began, in queue order.
C26_BurstHandled ==
    [][(wpc = "handle" /\ wpc' = "idle" /\ polled)
       => /\ HandledLetterSeq = pending
          /\ Len(pending) >= Len(at_drain)
          /\ SubSeq(pending, 1, Len(at_drain)) = at_drain]_vars

\* C26 witness: two letters were queued when the drain began and both have
\* been handled before the player's update of that tick
C26_Witness ==
    /\ wpc = "handle"
    /\ polled
    /\ Len(at_drain) = 2
    /\ Len(handled) = 2
    /\ at_drain[1] # at_drain[2]

\* the notice is drawn
NoticeVisible == no_target_timer > 0 /\ no_target_letter # None

\* the countdown of a tick takes the notice away and does nothing else
NoticeExpiry ==
    (no_target_letter # None /\ no_target_letter' = None)
    => /\ wpc = "idle" /\ wpc' # "idle"
       /\ shown # <<>> /\ shown[2] + tick_dt' >= NO_TARGET_TIME
       /\ UNCHANGED <<player, spells, spell_type_index, handled,
                      letter_queue, enemies, undines>>

\* the notice appears only when a letter is handled and no target is found
NoticeRaise ==
    (no_target_letter' # None /\ no_target_letter' # no_target_letter)
    => /\ Len(handled') = Len(handled) + 1
       /\ handled'[Len(handled')].letter = no_target_letter'
       /\ handled'[Len(handled')].spawned = 0
       /\ ~handled'[Len(handled')].tagged

\* C27: the notice for the letter last handled without a target is visible
\* exactly while less than 1.5 s of tick time have passed since that call;
\* the tick that reaches 1.5 s clears the letter and handles, spawns and
\* queues nothing by it, and the letter stays cleared until a letter is
\* handled without a target.
C27_NoticeExpires ==
    /\ [](/\ (NoticeVisible <=> shown # <<>>)
          /\ (shown # <<>> => no_target_letter = shown[1])
          /\ (shown = <<>> => no_target_letter = None))
    /\ [][NoticeExpiry /\ NoticeRaise]_vars

\* C27 witness: a notice was raised, ran out and a later tick has begun
\* with the letter still cleared
C27_Witness ==
    /\ no_target_letter = None
    /\ no_target_timer < 0
    /\ ticks = MaxTicks
    /\ wpc = "handle"
    /\ handled = <<>>

\* a tick that finds no recognizer, or an unavailable one, skips the drain
UnpolledBegin ==
    (wpc = "idle" /\ wpc' # "idle" /\ (camera_input = None \/ ~available))
    => /\ wpc' = "handle" /\ ~polled'
       /\ UNCHANGED <<letter_queue, player, spells>>
       /\ no_target_letter' \in {no_target_letter, None}

\* such a tick ends with the player's update and nothing a letter could do
UnpolledEnd ==
    (wpc = "handle" /\ ~polled /\ wpc' = "idle")
    => /\ \E fin \in BOOLEAN, moving \in BOOLEAN,
             hit \in {"none", "attack", "spell"} :
              player' = PlayerHit(PlayerUpdate(player, tick_dt, fin, moving),
                                  hit)
       /\ UNCHANGED <<letter_queue, spells, no_target_timer,
                      no_target_letter>>
       /\ (player'.is_blocking => player.is_blocking)

\* C28: a tick begun with no recognizer or with is_available() false leaves
\* the queue alone and calls the handler for no letter; up to the end of
\* the tick no projectile is spawned, no block is started and no notice is
\* raised, and the player's update runs.
C28_NoRecognizer ==
    /\ [](wpc = "handle" /\ ~polled => pending = <<>> /\ handled = <<>>)
    /\ [][UnpolledBegin /\ UnpolledEnd]_vars

\* C28 witness: a tick is past the recognizer without polling it while the
\* recognizer is unavailable and holds a confirmed letter
C28_Witness ==
    /\ wpc = "handle"
    /\ ~polled
    /\ camera_input # None
    /\ ~available
    /\ letter_queue # <<>>

\* C30: as long as the player is alive, is_blocking is true only while the
\* player's state is BLOCKING.
C30_BlockingOnlyWhileBlocking ==
    (player.alive /\ player.is_blocking) => player.state = STATE_BLOCKING


\* a step is one pass of a spell loop, for the spell cpc[2] of the pool cpc[1]
LoopPass ==
    /\ cpc[1] # "idle"
    /\ cpc'[1] = cpc[1]
    /\ cpc'[2] = cpc[2] + 1

\* C24: in a pass of a spell loop for a projectile spawned for letter c, no
\* entity of the pool whose letter at that moment differs from c (in upper
\* case) is changed, and the projectile is destroyed only if a live entity
\* it touches carries c: touching entities with other letters only, it
\* stays as it was.
C24_LetterRestrictedHits ==
    [][LoopPass =>
        LET s == spells[cpc[2]]
            pool == IF cpc[1] = "enemy" THEN enemies ELSE undines
            after == IF cpc[1] = "enemy" THEN enemies' ELSE undines'
        IN  /\ s.letter # None
            /\ \A j \in 1..Len(pool) :
                   pool[j].letter # s.letter => after[j] = pool[j]
            /\ (\A e \in collided' : e.letter # s.letter)
               => spells'[cpc[2]] = s]_vars

\* C24 witness: the second projectile, spawned for the letter the Lich had
\* and aimed at it, touches the Lich after a hit gave the Lich another
\* letter, and is still in flight
C24_Witness ==
    /\ cpc = <<"enemy", 3>>
    /\ spells[2].alive
    /\ spells[2].pool = "enemy" /\ spells[2].target = 2
    /\ \E e \in collided :
           /\ e.kind = "lich"
           /\ e.health = LICH_MAX_HEALTH - 1
           /\ e.letter # spells[2].letter
           /\ enemies[2] = e

\* C29: a hit that takes health from a Lich and leaves it alive gives it a
\* letter different from the one before, out of the letters of the wave it
\* was spawned for; no step changes health or letter of a Lich that is
\* blocking or dead.
C29_LichLetter ==
    [][\A j \in 1..Len(enemies) :
          enemies[j].kind = "lich" =>
              LET o == enemies[j]
                  n == enemies'[j]
              IN  /\ (n.health < o.health /\ n.alive)
                     => /\ n.letter # o.letter
                        /\ n.letter \in o.spawned_for
                  /\ (o.is_blocking \/ ~o.alive)
                     => /\ n.health = o.health
                        /\ n.letter = o.letter]_vars


\* C32: a player that is not alive has state DEAD.
C32_DeadStaysDead ==
    ~player.alive => player.state = STATE_DEAD


--------------------------------------------------------------------------
\* The death dialog: ticks without a bound on their number

\* WorldScene.update up to the call of get_pending_letters, not counted
TickBeginUncounted ==
    \E d \in TickDts : TickStart(d) /\ UNCHANGED ticks

\* a scene with a recognizer and one live ground enemy tagged 'A'
InitDeath ==
    /\ InitTick
    /\ camera_input = "CameraInput"
    /\ current_wave_index = 0

NextDeath ==
    \/ TickBeginUncounted
    \/ TickGet
    \/ TickDrained
    \/ TickHandle
    \/ TickSimulate
    \/ Confirm
    \/ SetAvailable

\* the main loop calls update again and again, and each call runs to its end
SpecDeathFair ==
    /\ InitDeath
    /\ [][NextDeath]_vars
    /\ WF_vars(TickBeginUncounted)
    /\ WF_vars(TickGet)
    /\ WF_vars(TickDrained)
    /\ WF_vars(TickHandle)
    /\ WF_vars(TickSimulate)

\* C31: whenever the player is dead, the death dialog is eventually shown.
C31_DeathDialogShown ==
    (~player.alive) ~> show_death_dialog


--------------------------------------------------------------------------
\* Restarts and the end of the detection loop

\* the loop of thread th is the only one that has not ended
OnlyLoop(th) ==
    \A o \in Threads \ {th} : pc[o] \in {"unborn", "dead"}

\* C33: when start() has created a loop that has not processed a frame yet,
\* and no older loop is left, the machine is in Waiting with no current
\* letter, no hold timer and progress 0.
C33_RestartIsFresh ==
    \A th \in Threads :
        (pc[th] = "startup" /\ OnlyLoop(th))
            => /\ state = STATE_WAITING
               /\ current_letter = None
               /\ hold_start_time = <<>>
               /\ hold_progress = 0


\* a detection loop is running: started and not yet ended
LoopRunning == \E th \in Threads : pc[th] \notin {"unborn", "dead"}

\* C34: is_available() is true only while a detection loop is running.
C34_AvailableOnlyWhileRunning ==
    available => LoopRunning

\* C35: a detection loop that has ended after opening the camera device
\* has released it.
C35_CameraReleased ==
    \A th \in Threads :
        (pc[th] = "dead" /\ cap[th] # "none") => cap[th] = "released"


--------------------------------------------------------------------------
\* Letters of the entities and the life of a projectile

\* C37: no live ground enemy, Lich or undine carries the block letter 'B'.
C37_NoLiveBlockLetter ==
    /\ \A j \in 1..Len(enemies) : enemies[j].alive => enemies[j].letter # "B"
    /\ \A j \in 1..Len(undines) : undines[j].alive => undines[j].letter # "B"


\* the entities of a pool that a step changes
Changed(old, new) == {j \in 1..Len(old) : new[j] # old[j]}

\* a step that changes an entity is the pass of a live projectile, changes
\* one entity and destroys the projectile
DamageByOne ==
    (enemies' # enemies \/ undines' # undines)
        => /\ cpc[1] \in {"enemy", "undine"}
           /\ cpc[2] <= Len(spells)
           /\ spells[cpc[2]].alive
           /\ ~spells'[cpc[2]].alive
           /\ Cardinality(Changed(enemies, enemies'))
                  + Cardinality(Changed(undines, undines')) = 1

\* within the loops of a tick a destroyed projectile stays destroyed
StaysDestroyed ==
    (cpc[1] \in {"enemy", "undine"} /\ cpc'[1] = cpc[1])
        => \A k \in 1..Len(spells) : ~spells[k].alive => ~spells'[k].alive

\* C38: a projectile damages at most one entity: every damage is done by a
\* live projectile to one entity and destroys the projectile, a destroyed
\* projectile is not revived, and it is out of the spell group when the
\* loop that destroyed it has ended.
C38_OneHitPerProjectile ==
    /\ [](cpc[1] \in {"idle", "undine"} /\ cpc[2] <= 1
              => \A k \in 1..Len(spells) : spells[k].alive)
    /\ [][DamageByOne /\ StaysDestroyed]_vars

\* a projectile has damaged a ground enemy and is destroyed, with a live
\* undine still to be visited by the loops of the tick
C38_Witness ==
    /\ cpc[1] = "enemy"
    /\ \E k \in 1..Len(spells) : ~spells[k].alive
    /\ \E j \in 1..Len(enemies) :
           enemies[j].kind = "enemy" /\ ~enemies[j].alive
    /\ \E j \in 1..Len(undines) : undines[j].alive


--------------------------------------------------------------------------
\* The pauses of the scene: the letter popup and the camera-ready prompt

\* self.game.get_camera_input(): the recognizer the game shares
SharedCameraInput == "CameraInput"

\* WorldScene.update while the camera-ready prompt is up
UpdatePaused ==
    /\ wpc = "idle"
    /\ waiting_for_camera_ready
    /\ UNCHANGED vars

\* WorldScene.update while the popup is up: once the popup is ready the wave
\* is spawned and _initialize_camera fetches the recognizer (the first time
\* only) and raises the camera-ready prompt unless it is available
UpdatePopup ==
    \E ready \in BOOLEAN :
        /\ wpc = "idle"
        /\ ~waiting_for_camera_ready
        /\ showing_asl_popup
        /\ IF ready
           THEN /\ showing_asl_popup' = FALSE
                /\ enemies' = SpawnWave(enemies)
                /\ IF camera_initialized
                   THEN UNCHANGED <<camera_initialized, camera_input,
                                    waiting_for_camera_ready>>
                   ELSE /\ camera_initialized' = TRUE
                        /\ camera_input' = SharedCameraInput
                        /\ waiting_for_camera_ready' =
                               ~(camera_input' # None /\ available)
                /\ pause_mark' = IF waiting_for_camera_ready'
                                 THEN pause_mark
                                 ELSE <<"resumed", letter_queue>>
           ELSE UNCHANGED <<showing_asl_popup, enemies, camera_initialized,
                            camera_input, waiting_for_camera_ready,
                            pause_mark>>
        /\ UNCHANGED <<wpc, tick_dt, pending, polled, at_drain, ticks,
                       death_anim, show_death_dialog, player,
                       current_wave_index, undines, spells, spell_type_index,
                       no_target_timer, no_target_letter, handled, shown,
                       cpc, collided, smvars, now, frames, lifevars,
                       loopvars, mainvars, lockvars>>

\* handle_event: RETURN while the camera-ready prompt is up
KeyReturn ==
    /\ wpc = "idle"
    /\ ~showing_asl_popup
    /\ waiting_for_camera_ready
    /\ waiting_for_camera_ready' = FALSE
    /\ pause_mark' = <<"resumed", letter_queue>>
    /\ UNCHANGED <<camera_input, wpc, tick_dt, pending, polled, at_drain,
                   ticks, showing_asl_popup, camera_initialized, death_anim,
                   show_death_dialog, worldvars, smvars, now, frames,
                   lifevars, loopvars, mainvars, lockvars>>

\* the end of a tick in a region that has a next one
TickSimulateCrossing ==
    \E fin \in BOOLEAN, moving \in BOOLEAN, hit \in {"none", "attack", "spell"},
       cross \in BOOLEAN, new_letters \in BOOLEAN :
        TickEnd(fin, moving, hit, cross, cross /\ new_letters)

\* the shared recognizer confirms a letter, whether or not the scene has
\* fetched it yet
ConfirmShared == \E c \in ConfirmedLetters : Put(c)

\* WorldScene.__init__: the popup for the letters of the first wave is up,
\* no wave is spawned and the recognizer is not fetched yet
InitPause ==
    /\ InitCamera
    /\ show_preview
    /\ camera_input = None
    /\ wpc = "idle"
    /\ tick_dt = 0
    /\ pending = <<>>
    /\ polled = FALSE
    /\ at_drain = <<>>
    /\ ticks = 0
    /\ showing_asl_popup = TRUE
    /\ waiting_for_camera_ready = FALSE
    /\ camera_initialized = FALSE
    /\ death_anim = AnimationReset
    /\ show_death_dialog = FALSE
    /\ pause_mark = <<"paused", <<>>>>
    /\ player = [alive |-> TRUE, state |-> STATE_IDLE,
                 is_blocking |-> FALSE, cast_toward |-> <<>>,
                 cast_anim_timer |-> 0]
    /\ current_wave_index = 0
    /\ enemies = <<>>
    /\ undines = <<>>
    /\ spells = <<>>
    /\ spell_type_index = 0
    /\ no_target_timer = 0 /\ no_target_letter = None
    /\ shown = <<>>
    /\ handled = <<>>
    /\ cpc = <<"idle", 0>>
    /\ collided = {}

NextPause ==
    \/ UpdatePaused
    \/ UpdatePopup
    \/ KeyReturn
    \/ TickBegin
    \/ TickGet
    \/ TickDrained
    \/ TickHandle
    \/ TickSimulateCrossing
    \/ ConfirmShared
    \/ Toggle

SpecPause == InitPause /\ [][NextPause]_vars

\* a step taken while the scene is paused dispatches nothing: no projectile,
\* no block, no notice, no handler call, and the queue only grows
NoDispatchWhilePaused ==
    (waiting_for_camera_ready \/ showing_asl_popup)
        => /\ player' = player
           /\ spells' = spells
           /\ no_target_timer' = no_target_timer
           /\ no_target_letter' = no_target_letter
           /\ shown' = shown
           /\ handled' = handled
           /\ pending' = pending
           /\ IsPrefix(letter_queue, letter_queue')

\* the step that ends the first tick after a pause
FirstTickEnds ==
    pause_mark[1] = "first" /\ wpc = "handle" /\ wpc' = "idle"

\* the first tick after a pause has handled, in order, the letters that
\* were queued when the pause ended
FirstTickHandlesAll ==
    FirstTickEnds => IsPrefix(pause_mark[2], HandledLetterSeq)

\* the same if that tick polled the recognizer; if it did not, no letter was
\* handled and the letters are still queued
FirstTickIfPolled ==
    FirstTickEnds
        => IF polled THEN IsPrefix(pause_mark[2], HandledLetterSeq)
           ELSE handled = <<>> /\ IsPrefix(pause_mark[2], letter_queue)

\* C36: while the scene is paused nothing is dispatched and the queue is not
\* drained, and the letters queued during the pause are all handled, in
\* order, in the first tick after the pause.
C36_PauseThenFirstTick ==
    [][NoDispatchWhilePaused /\ FirstTickHandlesAll]_vars

\* C36 amended: ... in the first tick after the pause if the recognizer is
\* available in that tick; otherwise they stay queued.
C36_PauseThenFirstPolledTick ==
    [][NoDispatchWhilePaused /\ FirstTickIfPolled]_vars

\* the first tick after a pause has handled the two letters confirmed
\* during the pause
C36_Witness ==
    /\ pause_mark[1] = "first"
    /\ Len(pause_mark[2]) = 2
    /\ wpc = "handle"
    /\ HandledLetterSeq = pause_mark[2]

====
